---- MODULE Spec2Model ----
(***************************************************************************)
(* Model of the SMAD mission design evaluation engine                      *)
(* (newmodel/smad_data_model.py): SolutionEvaluation, DesignIteration and  *)
(* Mission, with Python object references modelled as indices into two     *)
(* object heaps (solObjs for DesignSolution, evalObjs for                  *)
(* SolutionEvaluation).                                                    *)
(***************************************************************************)
EXTENDS Integers, Sequences, FiniteSets, TLC

VARIABLES
    solObjs,               \* heap of DesignSolution objects: ref -> [id, status]
    evalObjs,              \* heap of SolutionEvaluation objects: ref -> record
    objectives,            \* Mission.objectives
    requirements,          \* Mission.requirements
    constraints,           \* Mission.constraints
    design_solutions,      \* Mission.design_solutions: list of DesignSolution refs
    solution_evaluations,  \* Mission.solution_evaluations: dict id -> eval ref
    design_iterations,     \* Mission.design_iterations: list of DesignIteration
    baseline_solution_id,  \* Mission.baseline_solution_id (0 is None)
    selected_solution_id,  \* Mission.selected_solution_id (0 is None)
    last_modified,         \* Mission.last_modified
    now,                   \* the value datetime.now() returns
    passed,                \* history: the solution and evaluation given to each
                           \* add_design_iteration, with their state at the call;
                           \* for a constraint or an objective, what the last
                           \* call was given
    ret,                   \* history: what the last call returned
    kpiObjs,               \* heap of KeyPerformanceIndicator objects
    qoObjs,                \* heap of QuantitativeObjective objects
    quantitative_objectives, \* MissionObjective.quantitative_objectives: list of refs
    constraint,            \* Requirement.constraint / Constraint.constraint
    typed,                 \* a typed Requirement or Constraint object
    spacecraft,            \* a Spacecraft: its components and its margins
    orbit,                 \* an Orbit object
    polygon                \* GeoPolygon.points

vars == <<solObjs, evalObjs, objectives, requirements, constraints,
          design_solutions, solution_evaluations, design_iterations,
          baseline_solution_id, selected_solution_id, last_modified, now,
          passed, ret, kpiObjs, qoObjs, quantitative_objectives, constraint,
          typed, spacecraft, orbit, polygon>>

objectiveVars == <<kpiObjs, qoObjs, quantitative_objectives>>

engineVars == <<typed, spacecraft, orbit, polygon>>

missionVars == <<objectives, requirements, constraints, design_solutions,
                 solution_evaluations, design_iterations, baseline_solution_id,
                 selected_solution_id, last_modified>>

----------------------------------------------------------------------------
(* Bounds *)

MaxSolIds == 2         \* distinct solution ids a caller uses
MaxSolutions == 2      \* solutions added to a mission
MaxShareSolutions == 1 \* solutions of the mission whose evaluations are filled in
MaxShareIterations == 1 \* iterations of that mission
MaxEvals == 1          \* evaluate_solution calls on a mission
MaxShareEvals == 2     \* evaluate_solution calls on the mission whose evaluations are filled in
MaxIterations == 2     \* add_design_iteration calls
MaxKpis == 1           \* distinct kpi ids
MaxReqs == 1           \* distinct requirement ids
MaxCons == 2           \* distinct constraint ids
MaxItems == 1          \* objectives / requirements / constraints added
MaxEntries == 2        \* verification entries held by the evaluations of a mission
MaxCompare == 1        \* length of the id list given to compare_solutions
MaxTime == 1           \* clock ticks
MaxSelectSolutions == 1 \* solutions of the mission whose status is edited
MaxSelectEvals == 1    \* evaluations of that mission
MaxConstraintValue == 2 \* value, min_value, max_value range over 0..MaxConstraintValue
MaxThresholdValue == 1 \* threshold values range over 1..MaxThresholdValue
MaxKpiObjs == 1        \* KPIs whose thresholds are evaluated
MaxObjectiveKpis == 2  \* KPIs under the objectives
MaxQos == 2            \* QuantitativeObjective objects
MaxQoKpis == 2         \* KPIs of one QuantitativeObjective
MaxMoQos == 2          \* quantitative objectives of the MissionObjective
MaxCompareSolutions == 2 \* solutions of a compared Mission
MaxCompareEvals == 2   \* evaluate_solution calls on a compared Mission
MaxCompareIds == 3     \* ids given to one compare_solutions call
MaxPolygonArg == 22    \* points given to the GeoPolygon constructor
MaxComponents == 2     \* components of a Spacecraft
MaxComponentValue == 1 \* mass, power and cost of a component
MaxLimit == 4          \* limits given to verify_*_constraint
MaxRestSolutions == 2  \* solutions created through the endpoints
MaxRestEvals == 2      \* evaluations created through the endpoints
MaxRestIterations == 1 \* iterations added through the endpoint

SolIds == 1..MaxSolIds
KpiIds == 1..MaxKpis
ReqIds == 1..MaxReqs
ConIds == 1..MaxCons
Notes == {"", "n"}
Changes == {""}

None == 0

----------------------------------------------------------------------------
(* SolutionStatus *)

PROPOSED == "proposed"
UNDER_EVALUATION == "under_evaluation"
REQUIREMENTS_MET == "requirements_met"
REQUIREMENTS_NOT_MET == "requirements_not_met"
SELECTED == "selected"
REJECTED == "rejected"

SolutionStatus == {PROPOSED, UNDER_EVALUATION, REQUIREMENTS_MET,
                   REQUIREMENTS_NOT_MET, SELECTED, REJECTED}

----------------------------------------------------------------------------
(* Percentages.  (n / d) * 100 is a float in the source; it is kept here   *)
(* as the reduced fraction <<100 n / g, d / g>>, so two rates are equal    *)
(* exactly when the quotients are.                                         *)

RECURSIVE GCD(_, _)
GCD(a, b) == IF b = 0 THEN a ELSE GCD(b, a % b)

Percent(n, d) == LET g == GCD(100 * n, d) IN <<(100 * n) \div g, d \div g>>

ZeroRate == <<0, 1>>

----------------------------------------------------------------------------
(* Verification entries and SolutionEvaluation *)

KPIEvaluation(k, met) == [kpi_id |-> k, threshold_met |-> met]

RequirementVerification(r, v) == [requirement_id |-> r, verified |-> v]

ConstraintVerification(c, v, neg) ==
    [constraint_id |-> c, verified |-> v, is_negotiable |-> neg]

EmptyDict == [x \in {} |-> None]

\* dict[key] = value, dropping the entries held under other keys
DictSet_Clears(d, key, value) == [x \in {key} |-> value]

\* dict[key] = value
DictSet(d, key, value) ==
    [x \in (DOMAIN d) \cup {key} |-> IF x = key THEN value ELSE d[x]]

\* the evaluation starts in the solution's default status
SolutionEvaluation_Proposed(sid) ==
    [solution_id |-> sid,
     kpi_evaluations |-> EmptyDict,
     requirement_verifications |-> EmptyDict,
     constraint_verifications |-> EmptyDict,
     all_requirements_met |-> FALSE,
     all_critical_constraints_met |-> FALSE,
     overall_status |-> PROPOSED,
     kpi_success_rate |-> ZeroRate,
     requirement_success_rate |-> ZeroRate,
     constraint_success_rate |-> ZeroRate]

SolutionEvaluation(sid) ==
    [solution_id |-> sid,
     kpi_evaluations |-> EmptyDict,
     requirement_verifications |-> EmptyDict,
     constraint_verifications |-> EmptyDict,
     all_requirements_met |-> FALSE,
     all_critical_constraints_met |-> FALSE,
     overall_status |-> UNDER_EVALUATION,
     kpi_success_rate |-> ZeroRate,
     requirement_success_rate |-> ZeroRate,
     constraint_success_rate |-> ZeroRate]

Size(d) == Cardinality(DOMAIN d)

Entries(ev) ==
    Size(ev.kpi_evaluations) + Size(ev.requirement_verifications)
        + Size(ev.constraint_verifications)

\* sum(1 for x in d.values() if ...)
CountThresholdMet(d) == Cardinality({x \in DOMAIN d : d[x].threshold_met})

CountVerified(d) == Cardinality({x \in DOMAIN d : d[x].verified})

CountCritical(d) == Cardinality({x \in DOMAIN d : ~d[x].is_negotiable})

CountCriticalVerified(d) ==
    Cardinality({x \in DOMAIN d : ~d[x].is_negotiable /\ d[x].verified})

calculate_kpi_rate(ev) ==
    IF Size(ev.kpi_evaluations) # 0
    THEN [ev EXCEPT !.kpi_success_rate =
              Percent(CountThresholdMet(ev.kpi_evaluations),
                      Size(ev.kpi_evaluations))]
    ELSE ev

calculate_requirement_rate(ev) ==
    IF Size(ev.requirement_verifications) # 0
    THEN LET req_success == CountVerified(ev.requirement_verifications)
         IN [ev EXCEPT
               !.requirement_success_rate =
                   Percent(req_success, Size(ev.requirement_verifications)),
               !.all_requirements_met =
                   (req_success = Size(ev.requirement_verifications))]
    ELSE ev

calculate_constraint_rate(ev) ==
    IF Size(ev.constraint_verifications) # 0
    THEN LET const_success == CountVerified(ev.constraint_verifications)
             critical == CountCritical(ev.constraint_verifications)
             critical_met == CountCriticalVerified(ev.constraint_verifications)
             r == [ev EXCEPT !.constraint_success_rate =
                       Percent(const_success, Size(ev.constraint_verifications))]
         IN IF critical # 0
            THEN [r EXCEPT !.all_critical_constraints_met = (critical_met = critical)]
            ELSE r
    ELSE ev

calculate_success_rates(ev) ==
    calculate_constraint_rate(calculate_requirement_rate(calculate_kpi_rate(ev)))

\* not_met only when both flags are false
set_overall_status_BothFalse(ev) ==
    IF ev.all_requirements_met /\ ev.all_critical_constraints_met
    THEN [ev EXCEPT !.overall_status = REQUIREMENTS_MET]
    ELSE IF ~ev.all_requirements_met /\ ~ev.all_critical_constraints_met
         THEN [ev EXCEPT !.overall_status = REQUIREMENTS_NOT_MET]
         ELSE ev

set_overall_status(ev) ==
    IF ev.all_requirements_met /\ ev.all_critical_constraints_met
    THEN [ev EXCEPT !.overall_status = REQUIREMENTS_MET]
    ELSE IF ~ev.all_requirements_met \/ ~ev.all_critical_constraints_met
         THEN [ev EXCEPT !.overall_status = REQUIREMENTS_NOT_MET]
         ELSE ev

\* the status is set from the flags before they are recomputed
determine_overall_status_StatusFirst(ev) ==
    calculate_success_rates(set_overall_status(ev))

determine_overall_status(ev) == set_overall_status(calculate_success_rates(ev))

----------------------------------------------------------------------------
(* ComparisonOperator and NumericConstraintValue *)

LESS_THAN == "<"
LESS_THAN_OR_EQUAL == "<="
EQUAL == "=="
GREATER_THAN_OR_EQUAL == ">="
GREATER_THAN == ">"
BETWEEN == "between"
NOT_EQUAL == "!="

ComparisonOperator ==
    {LESS_THAN, LESS_THAN_OR_EQUAL, EQUAL, GREATER_THAN_OR_EQUAL, GREATER_THAN,
     BETWEEN, NOT_EQUAL}

\* an Optional[float] that is None
Missing == 0 - 1

NumericConstraintValue(operator, value, min_value, max_value) ==
    [operator |-> operator, value |-> value,
     min_value |-> min_value, max_value |-> max_value]

\* no NumericConstraintValue has been constructed
NoObject == NumericConstraintValue("", Missing, Missing, Missing)

\* __post_init__ of a NumericConstraintValue: TRUE when it raises ValueError
post_init_AllowsEmptyRange(c) ==
    IF c.operator = BETWEEN
    THEN IF c.min_value = Missing \/ c.max_value = Missing
         THEN TRUE
         ELSE c.min_value > c.max_value
    ELSE c.value = Missing

post_init(c) ==
    IF c.operator = BETWEEN
    THEN IF c.min_value = Missing \/ c.max_value = Missing
         THEN TRUE
         ELSE c.min_value >= c.max_value
    ELSE c.value = Missing

evaluate_Exclusive(c, test_value) ==
    IF c.operator = LESS_THAN THEN test_value < c.value
    ELSE IF c.operator = LESS_THAN_OR_EQUAL THEN test_value <= c.value
    ELSE IF c.operator = EQUAL THEN test_value = c.value
    ELSE IF c.operator = GREATER_THAN_OR_EQUAL THEN test_value >= c.value
    ELSE IF c.operator = GREATER_THAN THEN test_value > c.value
    ELSE IF c.operator = BETWEEN
         THEN c.min_value < test_value /\ test_value < c.max_value
    ELSE IF c.operator = NOT_EQUAL THEN test_value # c.value
    ELSE FALSE

evaluate(c, test_value) ==
    IF c.operator = LESS_THAN THEN test_value < c.value
    ELSE IF c.operator = LESS_THAN_OR_EQUAL THEN test_value <= c.value
    ELSE IF c.operator = EQUAL THEN test_value = c.value
    ELSE IF c.operator = GREATER_THAN_OR_EQUAL THEN test_value >= c.value
    ELSE IF c.operator = GREATER_THAN THEN test_value > c.value
    ELSE IF c.operator = BETWEEN
         THEN c.min_value <= test_value /\ test_value <= c.max_value
    ELSE IF c.operator = NOT_EQUAL THEN test_value # c.value
    ELSE FALSE

\* Requirement.verify and Constraint.verify, on the constraint c they hold
Requirement_verify(c, actual_value) == evaluate(c, actual_value)

Constraint_verify(c, actual_value) == evaluate(c, actual_value)

----------------------------------------------------------------------------
(* ObjectiveStatus, PerformanceThreshold and KeyPerformanceIndicator *)

NOT_EVALUATED == "not_evaluated"
BELOW_THRESHOLD == "below_threshold"
THRESHOLD_MET == "threshold_met"
BASELINE_MET == "baseline_met"
TARGET_MET == "target_met"
EXCEEDED == "exceeded"

ObjectiveStatus ==
    {NOT_EVALUATED, BELOW_THRESHOLD, THRESHOLD_MET, BASELINE_MET, TARGET_MET,
     EXCEEDED}

PerformanceThreshold(level, value, operator) ==
    [level |-> level, value |-> value, operator |-> operator]

\* PerformanceThreshold.evaluate
threshold_evaluate(t, actual_value) ==
    IF t.operator = LESS_THAN THEN actual_value < t.value
    ELSE IF t.operator = LESS_THAN_OR_EQUAL THEN actual_value <= t.value
    ELSE IF t.operator = EQUAL THEN actual_value = t.value
    ELSE IF t.operator = GREATER_THAN_OR_EQUAL THEN actual_value >= t.value
    ELSE IF t.operator = GREATER_THAN THEN actual_value > t.value
    ELSE IF t.operator = NOT_EQUAL THEN actual_value # t.value
    ELSE FALSE

KeyPerformanceIndicator(status) ==
    [thresholds |-> <<>>, current_value |-> Missing, status |-> status]

\* str.lower(), on the spellings of a level given to a KPI
lower(level) ==
    CASE level = "Target" -> "target"
      [] OTHER -> level

\* positions of the thresholds of kpi whose level is this one
Tiers(kpi, level) ==
    {i \in 1..Len(kpi.thresholds) : lower(kpi.thresholds[i].level) = lower(level)}

\* the position of the first threshold of this level, or None
get_threshold(kpi, level) ==
    IF Tiers(kpi, level) = {} THEN None
    ELSE CHOOSE i \in Tiers(kpi, level) : \A j \in Tiers(kpi, level) : i <= j

\* the status evaluate_performance stores and returns
performance_status_ThresholdFirst(kpi, actual_value) ==
    LET target == get_threshold(kpi, "target")
        baseline == get_threshold(kpi, "baseline")
        threshold == get_threshold(kpi, "threshold")
    IN IF threshold # None /\ threshold_evaluate(kpi.thresholds[threshold], actual_value)
       THEN THRESHOLD_MET
       ELSE IF baseline # None /\ threshold_evaluate(kpi.thresholds[baseline], actual_value)
       THEN BASELINE_MET
       ELSE IF target # None /\ threshold_evaluate(kpi.thresholds[target], actual_value)
       THEN TARGET_MET
       ELSE BELOW_THRESHOLD

performance_status(kpi, actual_value) ==
    LET target == get_threshold(kpi, "target")
        baseline == get_threshold(kpi, "baseline")
        threshold == get_threshold(kpi, "threshold")
    IN IF target # None /\ threshold_evaluate(kpi.thresholds[target], actual_value)
       THEN TARGET_MET
       ELSE IF baseline # None /\ threshold_evaluate(kpi.thresholds[baseline], actual_value)
       THEN BASELINE_MET
       ELSE IF threshold # None /\ threshold_evaluate(kpi.thresholds[threshold], actual_value)
       THEN THRESHOLD_MET
       ELSE BELOW_THRESHOLD

----------------------------------------------------------------------------
(* QuantitativeObjective and MissionObjective *)

QuantitativeObjective == [kpis |-> <<>>]

\* the status_values table of evaluate_objective
status_values_Swapped(status) ==
    CASE status = EXCEEDED -> 5
      [] status = TARGET_MET -> 4
      [] status = BASELINE_MET -> 3
      [] status = THRESHOLD_MET -> 1
      [] status = BELOW_THRESHOLD -> 2
      [] status = NOT_EVALUATED -> 0
      [] OTHER -> 0

status_values(status) ==
    CASE status = EXCEEDED -> 5
      [] status = TARGET_MET -> 4
      [] status = BASELINE_MET -> 3
      [] status = THRESHOLD_MET -> 2
      [] status = BELOW_THRESHOLD -> 1
      [] status = NOT_EVALUATED -> 0
      [] OTHER -> 0

\* the loop of evaluate_objective over the statuses of the children, from the
\* i-th on, with the minimum found so far
RECURSIVE min_status_loop(_, _, _, _)
min_status_loop(statuses, i, min_status, min_value) ==
    IF i > Len(statuses) THEN min_status
    ELSE LET value == status_values(statuses[i])
         IN IF value < min_value
            THEN min_status_loop(statuses, i + 1, statuses[i], value)
            ELSE min_status_loop(statuses, i + 1, min_status, min_value)

KpiStatuses(qo) == [i \in 1..Len(qo.kpis) |-> kpiObjs[qo.kpis[i]].status]

\* QuantitativeObjective.evaluate_objective
quantitative_evaluate_objective_SkipsUnevaluated(qo) ==
    LET Evaluated(st) == st # NOT_EVALUATED
        evaluated == SelectSeq(KpiStatuses(qo), Evaluated)
    IN IF evaluated = <<>> THEN NOT_EVALUATED
       ELSE min_status_loop(evaluated, 1, EXCEEDED, 6)

quantitative_evaluate_objective(qo) ==
    IF qo.kpis = <<>> THEN NOT_EVALUATED
    ELSE min_status_loop(KpiStatuses(qo), 1, EXCEEDED, 6)

QoResults ==
    [i \in 1..Len(quantitative_objectives) |->
        quantitative_evaluate_objective(qoObjs[quantitative_objectives[i]])]

\* MissionObjective.evaluate_objective
mission_evaluate_objective ==
    IF quantitative_objectives = <<>> THEN NOT_EVALUATED
    ELSE min_status_loop(QoResults, 1, EXCEEDED, 6)

----------------------------------------------------------------------------
(* History records *)

Ret(kind, val) == [kind |-> kind, val |-> val, listed |-> <<>>, figures |-> <<>>]

ReturnsNone == Ret("none", None)

EvalRefs == 1..Len(evalObjs)
SolRefs == 1..Len(solObjs)

\* verification entries held by all the evaluations constructed so far
RECURSIVE SumEntries(_)
SumEntries(n) ==
    IF n = 0 THEN 0
    ELSE Entries(evalObjs[n]) + SumEntries(n - 1)

TotalEntries == SumEntries(Len(evalObjs))

----------------------------------------------------------------------------
(* SolutionEvaluation methods, on the object e *)

add_kpi_evaluation(e, kpi_eval) ==
    /\ evalObjs' = [evalObjs EXCEPT ![e].kpi_evaluations =
                       DictSet(@, kpi_eval.kpi_id, kpi_eval)]
    /\ ret' = ReturnsNone
    /\ UNCHANGED <<solObjs, missionVars, now, passed,
                      objectiveVars, constraint, engineVars>>

add_requirement_verification(e, req_ver) ==
    /\ evalObjs' = [evalObjs EXCEPT ![e].requirement_verifications =
                       DictSet(@, req_ver.requirement_id, req_ver)]
    /\ ret' = ReturnsNone
    /\ UNCHANGED <<solObjs, missionVars, now, passed,
                      objectiveVars, constraint, engineVars>>

add_constraint_verification(e, const_ver) ==
    /\ evalObjs' = [evalObjs EXCEPT ![e].constraint_verifications =
                       DictSet(@, const_ver.constraint_id, const_ver)]
    /\ ret' = ReturnsNone
    /\ UNCHANGED <<solObjs, missionVars, now, passed,
                      objectiveVars, constraint, engineVars>>

DetermineOverallStatus(e) ==
    /\ evalObjs' = [evalObjs EXCEPT ![e] = determine_overall_status(@)]
    /\ ret' = ReturnsNone
    /\ UNCHANGED <<solObjs, missionVars, now, passed,
                      objectiveVars, constraint, engineVars>>

----------------------------------------------------------------------------
(* A SolutionEvaluation on its own *)

InitEval ==
    /\ solObjs = <<>>
    /\ \E sid \in SolIds : evalObjs = <<SolutionEvaluation(sid)>>
    /\ objectives = <<>>
    /\ requirements = <<>>
    /\ constraints = <<>>
    /\ design_solutions = <<>>
    /\ solution_evaluations = EmptyDict
    /\ design_iterations = <<>>
    /\ baseline_solution_id = None
    /\ selected_solution_id = None
    /\ last_modified = 0
    /\ now = 0
    /\ passed = <<>>
    /\ kpiObjs = <<>>
    /\ qoObjs = <<>>
    /\ quantitative_objectives = <<>>
    /\ constraint = NoObject
    /\ typed = NoObject
    /\ spacecraft = NoObject
    /\ orbit = NoObject
    /\ polygon = <<>>
    /\ ret = Ret("value", 1)

AddKpi ==
    \E e \in EvalRefs, k \in KpiIds, met \in BOOLEAN :
        add_kpi_evaluation(e, KPIEvaluation(k, met))

AddReq ==
    \E e \in EvalRefs, r \in ReqIds, v \in BOOLEAN :
        add_requirement_verification(e, RequirementVerification(r, v))

AddCon ==
    \E e \in EvalRefs, c \in ConIds, v \in BOOLEAN, neg \in BOOLEAN :
        add_constraint_verification(e, ConstraintVerification(c, v, neg))

Determine == \E e \in EvalRefs : DetermineOverallStatus(e)

NextEval == AddKpi \/ AddReq \/ AddCon \/ Determine

SpecEval == InitEval /\ [][NextEval]_vars

----------------------------------------------------------------------------
(* DesignSolution and Mission *)

DesignSolution(sid) == [id |-> sid, status |-> PROPOSED]

DesignIteration(num, s, e, notes, changes) ==
    [iteration_number |-> num, solution |-> s, evaluation |-> e,
     iteration_notes |-> notes, changes_from_previous |-> changes]

\* positions of design_solutions holding a solution with this id
Matches(sid) ==
    {i \in 1..Len(design_solutions) : solObjs[design_solutions[i]].id = sid}

Min(S) == CHOOSE x \in S : \A y \in S : x <= y

\* the first solution of the list with this id, or None
get_design_solution(sid) ==
    IF Matches(sid) = {} THEN None ELSE design_solutions[Min(Matches(sid))]

add_objective(o) ==
    /\ objectives' = Append(objectives, o)
    /\ last_modified' = now
    /\ ret' = ReturnsNone
    /\ UNCHANGED <<solObjs, evalObjs, requirements, constraints, design_solutions,
                   solution_evaluations, design_iterations, baseline_solution_id,
                   selected_solution_id, now, passed,
                      objectiveVars, constraint, engineVars>>

add_requirement(r) ==
    /\ requirements' = Append(requirements, r)
    /\ last_modified' = now
    /\ ret' = ReturnsNone
    /\ UNCHANGED <<solObjs, evalObjs, objectives, constraints, design_solutions,
                   solution_evaluations, design_iterations, baseline_solution_id,
                   selected_solution_id, now, passed,
                      objectiveVars, constraint, engineVars>>

add_constraint(c) ==
    /\ constraints' = Append(constraints, c)
    /\ last_modified' = now
    /\ ret' = ReturnsNone
    /\ UNCHANGED <<solObjs, evalObjs, objectives, requirements, design_solutions,
                   solution_evaluations, design_iterations, baseline_solution_id,
                   selected_solution_id, now, passed,
                      objectiveVars, constraint, engineVars>>

\* last_modified is left as it was
add_design_solution_Untimed(sid) ==
    LET solution == Len(solObjs) + 1
    IN /\ solObjs' = Append(solObjs, DesignSolution(sid))
       /\ design_solutions' = Append(design_solutions, solution)
       /\ ret' = Ret("value", sid)
       /\ UNCHANGED <<evalObjs, objectives, requirements, constraints,
                      solution_evaluations, design_iterations, baseline_solution_id,
                      selected_solution_id, last_modified, now, passed,
                      objectiveVars, constraint, engineVars>>

\* the caller constructs DesignSolution(id=sid, ...) and adds it
add_design_solution(sid) ==
    LET solution == Len(solObjs) + 1
    IN /\ solObjs' = Append(solObjs, DesignSolution(sid))
       /\ design_solutions' = Append(design_solutions, solution)
       /\ last_modified' = now
       /\ ret' = Ret("value", sid)
       /\ UNCHANGED <<evalObjs, objectives, requirements, constraints,
                      solution_evaluations, design_iterations, baseline_solution_id,
                      selected_solution_id, now, passed,
                      objectiveVars, constraint, engineVars>>

\* the solution evaluated is marked under_evaluation
evaluate_solution_Marks(sid) ==
    LET solution == get_design_solution(sid)
        evaluation == Len(evalObjs) + 1
    IN IF solution = None
       THEN /\ ret' = Ret("raise", None)
            /\ UNCHANGED <<solObjs, evalObjs, missionVars, now, passed,
                      objectiveVars, constraint, engineVars>>
       ELSE /\ evalObjs' = Append(evalObjs, SolutionEvaluation(solObjs[solution].id))
            /\ solution_evaluations' =
                   DictSet(solution_evaluations, solObjs[solution].id, evaluation)
            /\ last_modified' = now
            /\ ret' = Ret("value", evaluation)
            /\ solObjs' = [solObjs EXCEPT ![solution].status = UNDER_EVALUATION]
            /\ UNCHANGED <<objectives, requirements, constraints,
                           design_solutions, design_iterations, baseline_solution_id,
                           selected_solution_id, now, passed,
                      objectiveVars, constraint, engineVars>>

\* an evaluation already stored for the solution is returned as it is
evaluate_solution_GetOrCreate(sid) ==
    LET solution == get_design_solution(sid)
        evaluation == Len(evalObjs) + 1
    IN IF solution = None
       THEN /\ ret' = Ret("raise", None)
            /\ UNCHANGED <<solObjs, evalObjs, missionVars, now, passed,
                      objectiveVars, constraint, engineVars>>
       ELSE IF sid \in DOMAIN solution_evaluations
       THEN /\ last_modified' = now
            /\ ret' = Ret("value", solution_evaluations[sid])
            /\ UNCHANGED <<solObjs, evalObjs, objectives, requirements, constraints,
                           design_solutions, solution_evaluations, design_iterations,
                           baseline_solution_id, selected_solution_id, now, passed,
                      objectiveVars, constraint, engineVars>>
       ELSE /\ evalObjs' = Append(evalObjs, SolutionEvaluation(solObjs[solution].id))
            /\ solution_evaluations' =
                   DictSet(solution_evaluations, solObjs[solution].id, evaluation)
            /\ last_modified' = now
            /\ ret' = Ret("value", evaluation)
            /\ UNCHANGED <<solObjs, objectives, requirements, constraints,
                           design_solutions, design_iterations, baseline_solution_id,
                           selected_solution_id, now, passed,
                      objectiveVars, constraint, engineVars>>

\* the evaluation is stored before the solution is looked up
evaluate_solution_StoresFirst(sid) ==
    LET solution == get_design_solution(sid)
        evaluation == Len(evalObjs) + 1
    IN /\ evalObjs' = Append(evalObjs, SolutionEvaluation(sid))
       /\ solution_evaluations' = DictSet(solution_evaluations, sid, evaluation)
       /\ IF solution = None
          THEN /\ ret' = Ret("raise", None)
               /\ UNCHANGED last_modified
          ELSE /\ last_modified' = now
               /\ ret' = Ret("value", evaluation)
       /\ UNCHANGED <<solObjs, objectives, requirements, constraints, design_solutions,
                      design_iterations, baseline_solution_id, selected_solution_id,
                      now, passed, objectiveVars, constraint, engineVars>>

evaluate_solution(sid) ==
    LET solution == get_design_solution(sid)
        evaluation == Len(evalObjs) + 1
    IN IF solution = None
       THEN /\ ret' = Ret("raise", None)
            /\ UNCHANGED <<solObjs, evalObjs, missionVars, now, passed,
                      objectiveVars, constraint, engineVars>>
       ELSE /\ evalObjs' = Append(evalObjs, SolutionEvaluation(solObjs[solution].id))
            /\ solution_evaluations' =
                   DictSet(solution_evaluations, solObjs[solution].id, evaluation)
            /\ last_modified' = now
            /\ ret' = Ret("value", evaluation)
            /\ UNCHANGED <<solObjs, objectives, requirements, constraints,
                           design_solutions, design_iterations, baseline_solution_id,
                           selected_solution_id, now, passed,
                      objectiveVars, constraint, engineVars>>

\* what the caller hands to add_design_iteration, as it is at the call
Given(s, e) ==
    [solution |-> s, evaluation |-> e,
     status |-> solObjs[s].status, entries |-> Entries(evalObjs[e])]

\* iterations are numbered per solution
add_design_iteration_PerSolution(s, e, changes, notes) ==
    LET earlier == {k \in 1..Len(design_iterations) : design_iterations[k].solution = s}
        iteration_num == Cardinality(earlier) + 1
    IN /\ design_iterations' =
              Append(design_iterations, DesignIteration(iteration_num, s, e, notes, changes))
       /\ passed' = Append(passed, Given(s, e))
       /\ last_modified' = now
       /\ ret' = Ret("value", iteration_num)
       /\ UNCHANGED <<solObjs, evalObjs, objectives, requirements, constraints,
                      design_solutions, solution_evaluations, baseline_solution_id,
                      selected_solution_id, now,
                      objectiveVars, constraint, engineVars>>

\* an iteration supersedes the earlier iterations of its solution
add_design_iteration_Supersedes(s, e, changes, notes) ==
    LET Other(it) == it.solution # s
        kept == SelectSeq(design_iterations, Other)
        iteration_num == Len(design_iterations) + 1
    IN /\ design_iterations' =
              Append(kept, DesignIteration(iteration_num, s, e, notes, changes))
       /\ passed' = Append(passed, Given(s, e))
       /\ last_modified' = now
       /\ ret' = Ret("value", iteration_num)
       /\ UNCHANGED <<solObjs, evalObjs, objectives, requirements, constraints,
                      design_solutions, solution_evaluations, baseline_solution_id,
                      selected_solution_id, now,
                      objectiveVars, constraint, engineVars>>

\* the iteration keeps copies of the solution and the evaluation
add_design_iteration_Copies(s, e, changes, notes) ==
    LET iteration_num == Len(design_iterations) + 1
        solution == Len(solObjs) + 1
        evaluation == Len(evalObjs) + 1
    IN /\ solObjs' = Append(solObjs, solObjs[s])
       /\ evalObjs' = Append(evalObjs, evalObjs[e])
       /\ design_iterations' =
              Append(design_iterations,
                     DesignIteration(iteration_num, solution, evaluation, notes, changes))
       /\ passed' = Append(passed, Given(s, e))
       /\ last_modified' = now
       /\ ret' = Ret("value", iteration_num)
       /\ UNCHANGED <<objectives, requirements, constraints,
                      design_solutions, solution_evaluations, baseline_solution_id,
                      selected_solution_id, now,
                      objectiveVars, constraint, engineVars>>

add_design_iteration(s, e, changes, notes) ==
    LET iteration_num == Len(design_iterations) + 1
    IN /\ design_iterations' =
              Append(design_iterations, DesignIteration(iteration_num, s, e, notes, changes))
       /\ passed' = Append(passed, Given(s, e))
       /\ last_modified' = now
       /\ ret' = Ret("value", iteration_num)
       /\ UNCHANGED <<solObjs, evalObjs, objectives, requirements, constraints,
                      design_solutions, solution_evaluations, baseline_solution_id,
                      selected_solution_id, now,
                      objectiveVars, constraint, engineVars>>

\* the id is stored without looking the solution up
set_baseline_solution_Unchecked(sid) ==
    /\ baseline_solution_id' = sid
    /\ last_modified' = now
    /\ ret' = ReturnsNone
    /\ UNCHANGED <<solObjs, evalObjs, objectives, requirements, constraints,
                   design_solutions, solution_evaluations, design_iterations,
                   selected_solution_id, now, passed, objectiveVars, constraint, engineVars>>

set_baseline_solution(sid) ==
    LET solution == get_design_solution(sid)
    IN /\ IF solution # None
          THEN /\ baseline_solution_id' = sid
               /\ last_modified' = now
          ELSE UNCHANGED <<baseline_solution_id, last_modified>>
       /\ ret' = ReturnsNone
       /\ UNCHANGED <<solObjs, evalObjs, objectives, requirements, constraints,
                      design_solutions, solution_evaluations, design_iterations,
                      selected_solution_id, now, passed,
                      objectiveVars, constraint, engineVars>>

\* a solution is selected only when its evaluation met the requirements
set_selected_solution_OnlyWhenMet(sid) ==
    LET solution == get_design_solution(sid)
        met == /\ sid \in DOMAIN solution_evaluations
               /\ evalObjs[solution_evaluations[sid]].overall_status = REQUIREMENTS_MET
    IN /\ IF solution # None /\ met
          THEN /\ selected_solution_id' = sid
               /\ solObjs' = [solObjs EXCEPT ![solution].status = SELECTED]
               /\ last_modified' = now
          ELSE UNCHANGED <<selected_solution_id, solObjs, last_modified>>
       /\ ret' = ReturnsNone
       /\ UNCHANGED <<evalObjs, objectives, requirements, constraints,
                      design_solutions, solution_evaluations, design_iterations,
                      baseline_solution_id, now, passed, objectiveVars, constraint, engineVars>>

set_selected_solution(sid) ==
    LET solution == get_design_solution(sid)
    IN /\ IF solution # None
          THEN /\ selected_solution_id' = sid
               /\ solObjs' = [solObjs EXCEPT ![solution].status = SELECTED]
               /\ last_modified' = now
          ELSE UNCHANGED <<selected_solution_id, solObjs, last_modified>>
       /\ ret' = ReturnsNone
       /\ UNCHANGED <<evalObjs, objectives, requirements, constraints,
                      design_solutions, solution_evaluations, design_iterations,
                      baseline_solution_id, now, passed,
                      objectiveVars, constraint, engineVars>>

\* the lines of the report for one solution that has an evaluation
Figures(s) ==
    LET ev == evalObjs[solution_evaluations[solObjs[s].id]]
    IN [solution |-> s,
        status |-> ev.overall_status,
        kpi |-> ev.kpi_success_rate,
        req |-> ev.requirement_success_rate,
        con |-> ev.constraint_success_rate]

HasEvaluation(s) == solObjs[s].id \in DOMAIN solution_evaluations

IsKnown(sid) == get_design_solution(sid) # None

\* the report lists only the solutions that have an evaluation
compare_solutions_EvaluatedOnly(solution_ids) ==
    LET known == SelectSeq(solution_ids, IsKnown)
        solutions == [i \in 1..Len(known) |-> get_design_solution(known[i])]
        evaluated == SelectSeq(solutions, HasEvaluation)
    IN /\ ret' = IF evaluated = <<>>
                 THEN Ret("No solutions found for comparison.", None)
                 ELSE [kind |-> "report", val |-> Len(evaluated),
                       listed |-> evaluated,
                       figures |-> [i \in 1..Len(evaluated) |-> Figures(evaluated[i])]]
       /\ UNCHANGED <<solObjs, evalObjs, missionVars, now, passed,
                      objectiveVars, constraint, engineVars>>

compare_solutions(solution_ids) ==
    LET known == SelectSeq(solution_ids, IsKnown)
        solutions == [i \in 1..Len(known) |-> get_design_solution(known[i])]
        evaluated == SelectSeq(solutions, HasEvaluation)
    IN /\ ret' = IF solutions = <<>>
                 THEN Ret("No solutions found for comparison.", None)
                 ELSE [kind |-> "report", val |-> Len(solutions),
                       listed |-> solutions,
                       figures |-> [i \in 1..Len(evaluated) |-> Figures(evaluated[i])]]
       /\ UNCHANGED <<solObjs, evalObjs, missionVars, now, passed,
                      objectiveVars, constraint, engineVars>>

\* time passes: a later datetime.now() returns a later value
Tick ==
    /\ now < MaxTime
    /\ now' = now + 1
    /\ UNCHANGED <<solObjs, evalObjs, missionVars, passed, ret, objectiveVars, constraint, engineVars>>

----------------------------------------------------------------------------
(* A Mission and its callers *)

Init ==
    /\ solObjs = <<>>
    /\ evalObjs = <<>>
    /\ objectives = <<>>
    /\ requirements = <<>>
    /\ constraints = <<>>
    /\ design_solutions = <<>>
    /\ solution_evaluations = EmptyDict
    /\ design_iterations = <<>>
    /\ baseline_solution_id = None
    /\ selected_solution_id = None
    /\ last_modified = 0
    /\ now = 0
    /\ passed = <<>>
    /\ kpiObjs = <<>>
    /\ qoObjs = <<>>
    /\ quantitative_objectives = <<>>
    /\ constraint = NoObject
    /\ typed = NoObject
    /\ spacecraft = NoObject
    /\ orbit = NoObject
    /\ polygon = <<>>
    /\ ret = ReturnsNone

IdLists == UNION {[1..n -> SolIds] : n \in 0..MaxCompare}

Items == Len(objectives) + Len(requirements) + Len(constraints)

AddObjective == Items < MaxItems /\ \E o \in 1..MaxItems : add_objective(o)

AddRequirement == Items < MaxItems /\ \E r \in 1..MaxItems : add_requirement(r)

AddConstraint == Items < MaxItems /\ \E c \in 1..MaxItems : add_constraint(c)

AddSolution ==
    /\ Len(solObjs) < MaxSolutions
    /\ \E sid \in SolIds : add_design_solution(sid)

Evaluate ==
    /\ Len(evalObjs) < MaxEvals
    /\ \E sid \in SolIds : evaluate_solution(sid)

AddIteration ==
    /\ Len(design_iterations) < MaxIterations
    /\ \E s \in SolRefs, e \in EvalRefs, changes \in Changes, notes \in Notes :
           add_design_iteration(s, e, changes, notes)

SetBaseline == \E sid \in SolIds : set_baseline_solution(sid)

SetSelected == \E sid \in SolIds : set_selected_solution(sid)

Compare == \E ids \in IdLists : compare_solutions(ids)

Next ==
    \/ AddObjective
    \/ AddRequirement
    \/ AddConstraint
    \/ AddSolution
    \/ Evaluate
    \/ AddIteration
    \/ SetBaseline
    \/ SetSelected
    \/ Compare
    \/ Determine
    \/ Tick

Spec == Init /\ [][Next]_vars

----------------------------------------------------------------------------
(* One solution of a Mission, whose evaluations the caller fills in *)

AddShared ==
    /\ Len(solObjs) < MaxShareSolutions
    /\ \E sid \in SolIds : add_design_solution(sid)

AddSharedIteration ==
    /\ Len(design_iterations) < MaxShareIterations
    /\ \E s \in SolRefs, e \in EvalRefs, changes \in Changes, notes \in Notes :
           add_design_iteration(s, e, changes, notes)

EvaluateShared ==
    /\ Len(evalObjs) < MaxShareEvals
    /\ \E sid \in SolIds : evaluate_solution(sid)

NextShare ==
    \/ AddShared
    \/ EvaluateShared
    \/ AddSharedIteration
    \/ SetSelected
    \/ (TotalEntries < MaxEntries /\ AddKpi)
    \/ (TotalEntries < MaxEntries /\ AddReq)
    \/ (TotalEntries < MaxEntries /\ AddCon)
    \/ Determine

SpecShare == Init /\ [][NextShare]_vars

----------------------------------------------------------------------------
(* Selecting a solution whatever its status: the REST handlers on a Mission *)

\* PUT /solutions/<id> with a body that holds only "status"
update_design_solution(solution_id, status) ==
    LET solution == get_design_solution(solution_id)
    IN IF solution = None
       THEN /\ ret' = Ret("Solution not found", 404)
            /\ UNCHANGED <<solObjs, evalObjs, missionVars, now, passed,
                           objectiveVars, constraint, engineVars>>
       ELSE /\ solObjs' = [solObjs EXCEPT ![solution].status = status]
            /\ last_modified' = now
            /\ ret' = Ret("Solution updated", 200)
            /\ UNCHANGED <<evalObjs, objectives, requirements, constraints,
                           design_solutions, solution_evaluations, design_iterations,
                           baseline_solution_id, selected_solution_id, now, passed,
                           objectiveVars, constraint, engineVars>>

\* POST /select-solution/<id>: the handler with its call of set_selected_solution
select_solution(solution_id) ==
    LET solution == get_design_solution(solution_id)
    IN IF solution = None
       THEN /\ ret' = Ret("Solution not found", 404)
            /\ UNCHANGED <<solObjs, evalObjs, missionVars, now, passed,
                           objectiveVars, constraint, engineVars>>
       ELSE /\ selected_solution_id' = solution_id
            /\ solObjs' = [solObjs EXCEPT ![solution].status = SELECTED]
            /\ last_modified' = now
            /\ ret' = Ret("Solution selected", 200)
            /\ UNCHANGED <<evalObjs, objectives, requirements, constraints,
                           design_solutions, solution_evaluations, design_iterations,
                           baseline_solution_id, now, passed, objectiveVars, constraint, engineVars>>

AddSelectable ==
    /\ Len(solObjs) < MaxSelectSolutions
    /\ \E sid \in SolIds : add_design_solution(sid)

EvaluateSelectable ==
    /\ Len(evalObjs) < MaxSelectEvals
    /\ \E sid \in SolIds : evaluate_solution(sid)

UpdateSolution ==
    \E sid \in SolIds, st \in SolutionStatus : update_design_solution(sid, st)

SelectSolution == \E sid \in SolIds : select_solution(sid)

NextSelect ==
    \/ AddSelectable
    \/ EvaluateSelectable
    \/ UpdateSolution
    \/ SetSelected
    \/ SelectSolution
    \/ (TotalEntries < MaxEntries /\ AddKpi)
    \/ (TotalEntries < MaxEntries /\ AddReq)
    \/ (TotalEntries < MaxEntries /\ AddCon)
    \/ Determine

SpecSelect == Init /\ [][NextSelect]_vars

----------------------------------------------------------------------------
(* A NumericConstraintValue, held by a Requirement and by a Constraint *)

\* the constructor call: the dataclass __init__ followed by __post_init__
new_constraint(operator, value, min_value, max_value) ==
    LET c == NumericConstraintValue(operator, value, min_value, max_value)
    IN /\ IF post_init(c)
          THEN /\ ret' = Ret("raise", None)
               /\ UNCHANGED constraint
          ELSE /\ ret' = Ret("object", None)
               /\ constraint' = c
       /\ passed' = <<c>>
       /\ UNCHANGED <<solObjs, evalObjs, missionVars, now, objectiveVars, engineVars>>

\* data.get() gives None for a key the body leaves out
deserialize_constraint_value(operator, value, min_value, max_value) ==
    new_constraint(operator, value, min_value, max_value)

\* a call on the constraint held; passed keeps the object and the argument
call_evaluate(test_value) ==
    /\ ret' = Ret("value", evaluate(constraint, test_value))
    /\ passed' = <<constraint, test_value>>
    /\ UNCHANGED <<solObjs, evalObjs, missionVars, now, objectiveVars, constraint, engineVars>>

call_requirement_verify(actual_value) ==
    /\ ret' = Ret("value", Requirement_verify(constraint, actual_value))
    /\ passed' = <<constraint, actual_value>>
    /\ UNCHANGED <<solObjs, evalObjs, missionVars, now, objectiveVars, constraint, engineVars>>

call_constraint_verify(actual_value) ==
    /\ ret' = Ret("value", Constraint_verify(constraint, actual_value))
    /\ passed' = <<constraint, actual_value>>
    /\ UNCHANGED <<solObjs, evalObjs, missionVars, now, objectiveVars, constraint, engineVars>>

OptionalValues == {Missing} \cup 0..MaxConstraintValue

TestValues == 0..(MaxConstraintValue + 1)

Construct ==
    /\ constraint = NoObject
    /\ \E op \in ComparisonOperator, v \in OptionalValues,
          mn \in OptionalValues, mx \in OptionalValues :
           new_constraint(op, v, mn, mx)

Deserialize ==
    /\ constraint = NoObject
    /\ \E op \in ComparisonOperator, v \in OptionalValues,
          mn \in OptionalValues, mx \in OptionalValues :
           deserialize_constraint_value(op, v, mn, mx)

EvaluateConstraint ==
    constraint # NoObject /\ \E x \in TestValues : call_evaluate(x)

VerifyRequirement ==
    constraint # NoObject /\ \E x \in TestValues : call_requirement_verify(x)

VerifyConstraint ==
    constraint # NoObject /\ \E x \in TestValues : call_constraint_verify(x)

NextConstraint ==
    \/ Construct
    \/ Deserialize
    \/ EvaluateConstraint
    \/ VerifyRequirement
    \/ VerifyConstraint

SpecConstraint == Init /\ [][NextConstraint]_vars

----------------------------------------------------------------------------
(* A KeyPerformanceIndicator and its thresholds *)

\* kpi = KeyPerformanceIndicator(..., status=status)
new_kpi(status) ==
    /\ kpiObjs' = Append(kpiObjs, KeyPerformanceIndicator(status))
    /\ ret' = Ret("object", Len(kpiObjs) + 1)
    /\ passed' = <<>>
    /\ UNCHANGED <<solObjs, evalObjs, missionVars, now, qoObjs,
                   quantitative_objectives, constraint, engineVars>>

add_threshold(k, threshold) ==
    /\ kpiObjs' = [kpiObjs EXCEPT ![k].thresholds = Append(@, threshold)]
    /\ ret' = ReturnsNone
    /\ passed' = <<>>
    /\ UNCHANGED <<solObjs, evalObjs, missionVars, now, qoObjs,
                   quantitative_objectives, constraint, engineVars>>

evaluate_performance(k, actual_value) ==
    LET status == performance_status(kpiObjs[k], actual_value)
    IN /\ kpiObjs' = [kpiObjs EXCEPT ![k].current_value = actual_value,
                                     ![k].status = status]
       /\ ret' = Ret("value", status)
       /\ passed' = <<>>
       /\ UNCHANGED <<solObjs, evalObjs, missionVars, now, qoObjs,
                      quantitative_objectives, constraint, engineVars>>

Levels == {"target", "Target", "baseline", "threshold"}

ThresholdValues == 1..MaxThresholdValue

ActualValues == 0..(MaxThresholdValue + 1)

KpiRefs == 1..Len(kpiObjs)

NewKpi ==
    /\ Len(kpiObjs) < MaxKpiObjs
    /\ new_kpi(NOT_EVALUATED)

\* a caller gives a KPI one threshold of a level at most
AddThreshold ==
    \E k \in KpiRefs, level \in Levels, v \in ThresholdValues,
       op \in ComparisonOperator :
        /\ get_threshold(kpiObjs[k], level) = None
        /\ add_threshold(k, PerformanceThreshold(level, v, op))

EvaluatePerformance ==
    \E k \in KpiRefs, actual \in ActualValues : evaluate_performance(k, actual)

NextKpi == NewKpi \/ AddThreshold \/ EvaluatePerformance

SpecKpi == Init /\ [][NextKpi]_vars

----------------------------------------------------------------------------
(* A MissionObjective, its QuantitativeObjectives and their KPIs *)

new_quantitative_objective ==
    /\ qoObjs' = Append(qoObjs, QuantitativeObjective)
    /\ ret' = Ret("object", Len(qoObjs) + 1)
    /\ passed' = <<>>
    /\ UNCHANGED <<solObjs, evalObjs, missionVars, now, kpiObjs,
                   quantitative_objectives, constraint, engineVars>>

add_kpi(q, kpi) ==
    /\ qoObjs' = [qoObjs EXCEPT ![q].kpis = Append(@, kpi)]
    /\ ret' = ReturnsNone
    /\ passed' = <<>>
    /\ UNCHANGED <<solObjs, evalObjs, missionVars, now, kpiObjs,
                   quantitative_objectives, constraint, engineVars>>

add_quantitative_objective(quant_obj) ==
    /\ quantitative_objectives' = Append(quantitative_objectives, quant_obj)
    /\ ret' = ReturnsNone
    /\ passed' = <<>>
    /\ UNCHANGED <<solObjs, evalObjs, missionVars, now, kpiObjs, qoObjs, constraint, engineVars>>

call_quantitative_evaluate_objective(q) ==
    /\ ret' = Ret("value", quantitative_evaluate_objective(qoObjs[q]))
    /\ passed' = <<q>>
    /\ UNCHANGED <<solObjs, evalObjs, missionVars, now, objectiveVars, constraint, engineVars>>

call_mission_evaluate_objective ==
    /\ ret' = Ret("mission value", mission_evaluate_objective)
    /\ passed' = <<>>
    /\ UNCHANGED <<solObjs, evalObjs, missionVars, now, objectiveVars, constraint, engineVars>>

QoRefs == 1..Len(qoObjs)

NewObjectiveKpi ==
    /\ Len(kpiObjs) < MaxObjectiveKpis
    /\ \E st \in ObjectiveStatus : new_kpi(st)

NewQuantitativeObjective ==
    /\ Len(qoObjs) < MaxQos
    /\ new_quantitative_objective

AddKpiToObjective ==
    \E q \in QoRefs, k \in KpiRefs :
        /\ Len(qoObjs[q].kpis) < MaxQoKpis
        /\ add_kpi(q, k)

AddQuantitativeObjective ==
    /\ Len(quantitative_objectives) < MaxMoQos
    /\ \E q \in QoRefs : add_quantitative_objective(q)

EvaluateQuantitative == \E q \in QoRefs : call_quantitative_evaluate_objective(q)

EvaluateMission == call_mission_evaluate_objective

NextObjective ==
    \/ NewObjectiveKpi
    \/ NewQuantitativeObjective
    \/ AddKpiToObjective
    \/ AddQuantitativeObjective
    \/ EvaluateQuantitative
    \/ EvaluateMission

SpecObjective == Init /\ [][NextObjective]_vars

----------------------------------------------------------------------------
(* The comparison report of a Mission *)

\* the ids a caller may name: those of SolIds and one no solution has
CompareIds == 1..(MaxSolIds + 1)

CompareLists == UNION {[1..n -> CompareIds] : n \in 0..MaxCompareIds}

AddComparable ==
    /\ Len(solObjs) < MaxCompareSolutions
    /\ \E sid \in SolIds : add_design_solution(sid)

EvaluateComparable ==
    /\ Len(evalObjs) < MaxCompareEvals
    /\ \E sid \in SolIds : evaluate_solution(sid)

DetermineComparable ==
    \E e \in EvalRefs :
        /\ evalObjs[e].overall_status = UNDER_EVALUATION
        /\ DetermineOverallStatus(e)

CompareMany == \E ids \in CompareLists : compare_solutions(ids)

NextCompare ==
    \/ AddComparable
    \/ EvaluateComparable
    \/ DetermineComparable
    \/ CompareMany

SpecCompare == Init /\ [][NextCompare]_vars

----------------------------------------------------------------------------
(* GeoPolygon *)

\* the point limits written in GeoPolygon
MAX_POINTS == 20
MIN_POINTS == 3

\* a GeoPoint; its coordinates play no part in GeoPolygon
GeoPoint == 1

\* polygon = GeoPolygon(points=points)
new_polygon(points) ==
    LET raises == \/ Len(points) > MAX_POINTS
                  \/ (0 < Len(points) /\ Len(points) < MIN_POINTS)
    IN /\ ret' = Ret(IF raises THEN "raise" ELSE "object", Len(points))
       /\ polygon' = IF raises THEN polygon ELSE points
       /\ UNCHANGED <<solObjs, evalObjs, missionVars, now, passed,
                      objectiveVars, constraint, typed, spacecraft, orbit>>

\* polygon.add_point(point)
add_point(point) ==
    /\ IF Len(polygon) >= MAX_POINTS
       THEN /\ ret' = Ret("raise", Len(polygon))
            /\ UNCHANGED polygon
       ELSE /\ ret' = ReturnsNone
            /\ polygon' = Append(polygon, point)
    /\ UNCHANGED <<solObjs, evalObjs, missionVars, now, passed,
                   objectiveVars, constraint, typed, spacecraft, orbit>>

NewPolygon == \E n \in 0..MaxPolygonArg : new_polygon([i \in 1..n |-> GeoPoint])

AddPoint == add_point(GeoPoint)

NextPolygon == NewPolygon \/ AddPoint

SpecPolygon == Init /\ [][NextPolygon]_vars

----------------------------------------------------------------------------
(* Orbit *)

\* Lengths are in metres (the source's kilometres times 1000) and an
\* eccentricity is a number of ECC_SCALE-ths, so that 6378.137 km, 0.001 and
\* 0.0005 are integers.
EARTH_RADIUS == 6378137
ECC_SCALE == 2000
\* 0.001, below which __post_init__ takes the orbit for circular
CIRCULAR_BELOW == 2

\* perigee_altitude and apogee_altitude are kept in ECC_SCALE-ths of a metre:
\* (a * (1 - e) - R) * ECC_SCALE, written (a - R) * ECC_SCALE - a * e to stay
\* within 32 bits
perigee_of(a, e) == (a - EARTH_RADIUS) * ECC_SCALE - a * e
apogee_of(a, e) == (a - EARTH_RADIUS) * ECC_SCALE + a * e

Orbit(semi_major_axis, eccentricity, altitude) ==
    [semi_major_axis |-> semi_major_axis,
     eccentricity |-> eccentricity,
     altitude |-> altitude,
     perigee_altitude |-> Missing,
     apogee_altitude |-> Missing]

\* Orbit.__post_init__
orbit_post_init(o) ==
    LET circular == [o EXCEPT !.altitude =
                        IF o.eccentricity < CIRCULAR_BELOW /\ o.altitude = Missing
                        THEN o.semi_major_axis - EARTH_RADIUS ELSE @]
    IN IF o.eccentricity > 0
       THEN [circular EXCEPT
                !.perigee_altitude = perigee_of(o.semi_major_axis, o.eccentricity),
                !.apogee_altitude = apogee_of(o.semi_major_axis, o.eccentricity)]
       ELSE circular

\* orbit = Orbit(semi_major_axis=..., eccentricity=..., altitude=...)
new_orbit(semi_major_axis, eccentricity, altitude) ==
    /\ ret' = Ret("object", None)
    /\ orbit' = orbit_post_init(Orbit(semi_major_axis, eccentricity, altitude))
    /\ passed' = <<Orbit(semi_major_axis, eccentricity, altitude)>>
    /\ UNCHANGED <<solObjs, evalObjs, missionVars, now,
                   objectiveVars, constraint, typed, spacecraft, polygon>>

\* deserialize_orbit(data): an absent eccentricity is 0.0, an absent
\* altitude is None
deserialize_orbit(semi_major_axis, eccentricity, altitude) ==
    new_orbit(semi_major_axis,
              IF eccentricity = Missing THEN 0 ELSE eccentricity,
              altitude)

OrbitAltitudes == {400000, 500000, 600000, 705000, 800000}

SemiMajorAxes == {EARTH_RADIUS + h : h \in OrbitAltitudes}

\* 0, 0.0005, 0.001 and 0.01
Eccentricities == {0, 1, 2, 20}

GivenAltitudes == {Missing, 700000} \cup OrbitAltitudes

NewOrbit ==
    \E a \in SemiMajorAxes, e \in Eccentricities, h \in GivenAltitudes :
        new_orbit(a, e, h)

DeserializeOrbit ==
    \E a \in SemiMajorAxes, e \in Eccentricities \cup {Missing},
       h \in GivenAltitudes :
        deserialize_orbit(a, e, h)

NextOrbit == NewOrbit \/ DeserializeOrbit

SpecOrbit == Init /\ [][NextOrbit]_vars

----------------------------------------------------------------------------
(* Typed Requirement and Constraint subclasses *)

\* the values of the Unit enumeration ("um" stands for the micrometre sign)
Unit ==
    {"m", "km", "cm", "mm", "um", "s", "min", "hr", "days", "years",
     "bits", "bytes", "MB", "GB", "TB", "Mbps", "Gbps", "kg", "g", "tonnes",
     "W", "kW", "USD", "EUR", "deg", "rad", "nm", "dB", "%", "count", ""}

RequirementSubtypes ==
    {"SpatialResolutionRequirement", "TemporalResolutionRequirement",
     "SpectralResolutionRequirement", "RadiometricResolutionRequirement",
     "SwathWidthRequirement", "CoverageAreaRequirement",
     "DataLatencyRequirement"}

ConstraintSubtypes ==
    {"BudgetConstraint", "OrbitalConstraint", "MassConstraint",
     "PowerConstraint", "ScheduleConstraint"}

Subtypes == RequirementSubtypes \cup ConstraintSubtypes

\* the units with which the __init__ of a subclass goes on to construct the
\* object; OrbitalConstraint.__init__ has no check of the unit
allowed_units(subtype) ==
    CASE subtype = "SpatialResolutionRequirement" -> {"m", "km", "cm"}
      [] subtype = "TemporalResolutionRequirement" -> {"days", "hr", "min"}
      [] subtype = "SpectralResolutionRequirement" -> {"nm", "um", "count"}
      [] subtype = "RadiometricResolutionRequirement" -> {"bits", "count"}
      [] subtype = "SwathWidthRequirement" -> {"km", "m"}
      [] subtype = "CoverageAreaRequirement" -> {"%", "km"}
      [] subtype = "DataLatencyRequirement" -> {"hr", "min", "days"}
      [] subtype = "BudgetConstraint" -> {"USD", "EUR"}
      [] subtype = "OrbitalConstraint" -> Unit
      [] subtype = "MassConstraint" -> {"kg", "g", "tonnes"}
      [] subtype = "PowerConstraint" -> {"W", "kW"}
      [] subtype = "ScheduleConstraint" -> {"days", "years"}

\* a typed Requirement or Constraint and the unit of its constraint
Typed(subtype, unit) == [subtype |-> subtype, unit |-> unit]

\* typed = Subtype(id, title, NumericConstraintValue(..., unit=unit))
new_typed(subtype, unit) ==
    /\ IF unit \in allowed_units(subtype)
       THEN /\ ret' = Ret("object", None)
            /\ typed' = Typed(subtype, unit)
       ELSE /\ ret' = Ret("raise", None)
            /\ UNCHANGED typed
    /\ passed' = <<Typed(subtype, unit)>>
    /\ UNCHANGED <<solObjs, evalObjs, missionVars, now,
                   objectiveVars, constraint, spacecraft, orbit, polygon>>

NewRequirement ==
    /\ typed = NoObject
    /\ \E subtype \in RequirementSubtypes, unit \in Unit : new_typed(subtype, unit)

NewConstraint ==
    /\ typed = NoObject
    /\ \E subtype \in ConstraintSubtypes, unit \in Unit : new_typed(subtype, unit)

NextTyped == NewRequirement \/ NewConstraint

SpecTyped == Init /\ [][NextTyped]_vars

----------------------------------------------------------------------------
(* Spacecraft *)

Component(active_power, passive_power, mass, cost) ==
    [active_power |-> active_power, passive_power |-> passive_power,
     mass |-> mass, cost |-> cost]

Spacecraft(dry_mass_margin, power_margin, cost_margin) ==
    [components |-> <<>>,
     dry_mass_margin |-> dry_mass_margin,
     power_margin |-> power_margin,
     cost_margin |-> cost_margin]

\* sum(...) over a list of numbers
RECURSIVE sum(_)
sum(values) ==
    IF values = <<>> THEN 0 ELSE Head(values) + sum(Tail(values))

\* the total is returned as it is
with_margin_Dropped(total, margin) == total * 100

\* total *= (1 + margin / 100); totals are kept in hundredths of the unit,
\* margins being whole percents
with_margin(total, margin) == total * (100 + margin)

calculate_total_mass(sc, include_margin) ==
    LET total == sum([i \in 1..Len(sc.components) |-> sc.components[i].mass])
    IN IF include_margin THEN with_margin(total, sc.dry_mass_margin)
       ELSE total * 100

calculate_total_power(sc, mode, include_margin) ==
    LET total ==
            IF mode = "active"
            THEN sum([i \in 1..Len(sc.components) |-> sc.components[i].active_power])
            ELSE sum([i \in 1..Len(sc.components) |-> sc.components[i].passive_power])
    IN IF include_margin THEN with_margin(total, sc.power_margin)
       ELSE total * 100

calculate_total_cost(sc, include_margin) ==
    LET total == sum([i \in 1..Len(sc.components) |-> sc.components[i].cost])
    IN IF include_margin THEN with_margin(total, sc.cost_margin)
       ELSE total * 100

\* the pair a verify_*_constraint method returns, the limit being in units
\* and the total in hundredths
verify_mass_constraint(sc, max_mass) ==
    LET total_mass == calculate_total_mass(sc, TRUE)
    IN <<total_mass <= max_mass * 100, total_mass>>

verify_power_constraint(sc, max_power, mode) ==
    LET total_power == calculate_total_power(sc, mode, TRUE)
    IN <<total_power <= max_power * 100, total_power>>

verify_cost_constraint(sc, max_cost) ==
    LET total_cost == calculate_total_cost(sc, TRUE)
    IN <<total_cost <= max_cost * 100, total_cost>>

\* what a call on the spacecraft returned
Verified(method, pair) ==
    [kind |-> method, val |-> None, listed |-> pair, figures |-> <<>>]

\* spacecraft = Spacecraft(id, name, dry_mass_margin=..., ...)
new_spacecraft(dry_mass_margin, power_margin, cost_margin) ==
    /\ ret' = Ret("object", None)
    /\ spacecraft' = Spacecraft(dry_mass_margin, power_margin, cost_margin)
    /\ passed' = <<>>
    /\ UNCHANGED <<solObjs, evalObjs, missionVars, now,
                   objectiveVars, constraint, typed, orbit, polygon>>

\* spacecraft.add_component(component)
add_component(component) ==
    /\ ret' = ReturnsNone
    /\ spacecraft' = [spacecraft EXCEPT !.components = Append(@, component)]
    /\ passed' = <<>>
    /\ UNCHANGED <<solObjs, evalObjs, missionVars, now,
                   objectiveVars, constraint, typed, orbit, polygon>>

call_verify_mass_constraint(max_mass) ==
    /\ ret' = Verified("verify_mass_constraint",
                       verify_mass_constraint(spacecraft, max_mass))
    /\ passed' = <<max_mass>>
    /\ UNCHANGED <<solObjs, evalObjs, missionVars, now,
                   objectiveVars, constraint, engineVars>>

call_verify_power_constraint(max_power, mode) ==
    /\ ret' = Verified("verify_power_constraint",
                       verify_power_constraint(spacecraft, max_power, mode))
    /\ passed' = <<max_power, mode>>
    /\ UNCHANGED <<solObjs, evalObjs, missionVars, now,
                   objectiveVars, constraint, engineVars>>

call_verify_cost_constraint(max_cost) ==
    /\ ret' = Verified("verify_cost_constraint",
                       verify_cost_constraint(spacecraft, max_cost))
    /\ passed' = <<max_cost>>
    /\ UNCHANGED <<solObjs, evalObjs, missionVars, now,
                   objectiveVars, constraint, engineVars>>

\* the default margins of a Spacecraft and another choice, in percent
MarginChoices == {<<20, 30, 25>>, <<50, 100, 0>>}

ComponentValues == 0..MaxComponentValue

Limits == 0..MaxLimit

Modes == {"active", "passive"}

NewSpacecraft ==
    /\ spacecraft = NoObject
    /\ \E m \in MarginChoices : new_spacecraft(m[1], m[2], m[3])

AddComponent ==
    /\ spacecraft # NoObject
    /\ Len(spacecraft.components) < MaxComponents
    /\ \E a \in ComponentValues, p \in ComponentValues,
          m \in ComponentValues, c \in ComponentValues :
           add_component(Component(a, p, m, c))

VerifyMass ==
    /\ spacecraft # NoObject
    /\ \E limit \in Limits : call_verify_mass_constraint(limit)

VerifyPower ==
    /\ spacecraft # NoObject
    /\ \E limit \in Limits, mode \in Modes :
           call_verify_power_constraint(limit, mode)

VerifyCost ==
    /\ spacecraft # NoObject
    /\ \E limit \in Limits : call_verify_cost_constraint(limit)

NextSpacecraft ==
    \/ NewSpacecraft
    \/ AddComponent
    \/ VerifyMass
    \/ VerifyPower
    \/ VerifyCost

SpecSpacecraft == Init /\ [][NextSpacecraft]_vars

----------------------------------------------------------------------------
(* The baseline iteration of the demo *)

\* A computed length is a fraction <<numerator, denominator>>. The
\* instrument's pixel_pitch is in micrometres as in the source, and its
\* focal_length, 1.85 m, is written in micrometres too, which takes the
\* place of the factor 1e-6. Costs are in units of 100 000 USD.
PayloadInstrument(active_power, passive_power, mass, cost, focal_length, detector_array_size_across_track, pixel_pitch, num_bands) ==
    [active_power |-> active_power, passive_power |-> passive_power,
     mass |-> mass, cost |-> cost,
     focal_length |-> focal_length,
     detector_array_size_across_track |-> detector_array_size_across_track,
     pixel_pitch |-> pixel_pitch,
     num_bands |-> num_bands,
     ground_sample_distance |-> <<0, 1>>,
     swath_width |-> <<0, 1>>]

\* the ground sample distance in metres that calculate_gsd_from_orbit
\* stores and returns
calculate_gsd_from_orbit(p, altitude_km) ==
    IF p.focal_length > 0 /\ p.pixel_pitch > 0
    THEN <<(altitude_km * 1000) * p.pixel_pitch, p.focal_length>>
    ELSE p.ground_sample_distance

\* the swath in kilometres that calculate_swath_from_array stores and
\* returns: altitude_m * array_width_m / focal_length / 1000
calculate_swath_from_array(p, altitude_km) ==
    IF /\ p.focal_length > 0
       /\ p.detector_array_size_across_track > 0
       /\ p.pixel_pitch > 0
    THEN <<altitude_km * (p.detector_array_size_across_track * p.pixel_pitch),
           p.focal_length>>
    ELSE p.swath_width

payload_15m ==
    PayloadInstrument(180, 25, 285, 220, 1850000, 14624, 13, 8)

\* the eight components create_spacecraft_bus adds
create_spacecraft_bus ==
    [Spacecraft(20, 30, 25) EXCEPT !.components =
        <<Component(15, 8, 185, 85),
          Component(85, 15, 95, 62),
          Component(125, 12, 55, 48),
          Component(65, 15, 42, 55),
          Component(95, 8, 38, 68),
          Component(45, 5, 125, 32),
          Component(35, 5, 48, 21),
          Component(0, 0, 165, 45)>>]

\* the altitude the demo gives to the payload, in km
altitude_iter1 == 705

\* orbit_iter1.revisit_time_global, in days
revisit_iter1 == 3

\* sc_iter1 once the payload, its GSD and swath computed, is added
sc_iter1 ==
    LET p == [payload_15m EXCEPT
                 !.ground_sample_distance =
                     calculate_gsd_from_orbit(payload_15m, altitude_iter1),
                 !.swath_width =
                     calculate_swath_from_array(payload_15m, altitude_iter1)]
    IN [create_spacecraft_bus EXCEPT !.components = Append(@, p)]

\* the payload among the components of a spacecraft
payload_of(sc) == sc.components[Len(sc.components)]

\* the KPI with its three thresholds, each <= value
demo_kpi(threshold, baseline, target) ==
    [KeyPerformanceIndicator(NOT_EVALUATED) EXCEPT !.thresholds =
        <<PerformanceThreshold("threshold", threshold, LESS_THAN_OR_EQUAL),
          PerformanceThreshold("baseline", baseline, LESS_THAN_OR_EQUAL),
          PerformanceThreshold("target", target, LESS_THAN_OR_EQUAL)>>]

\* kpi.evaluate_performance(q) for a fraction q: both sides of each
\* comparison are multiplied by the denominator
kpi_gsd_result(q) ==
    performance_status(demo_kpi(30 * q[2], 15 * q[2], 10 * q[2]), q[1])

kpi_revisit_result(days) == performance_status(demo_kpi(5, 3, 2), days)

\* req_spatial.verify(q), the requirement being <= 15.0 m
req_gsd_verified(q) ==
    Requirement_verify(
        NumericConstraintValue(LESS_THAN_OR_EQUAL, 15 * q[2], Missing, Missing),
        q[1])

\* req_swath.verify(q), the requirement being >= 180.0 km
req_swath_verified(q) ==
    Requirement_verify(
        NumericConstraintValue(GREATER_THAN_OR_EQUAL, 180 * q[2], Missing, Missing),
        q[1])

\* req_spectral.verify(float(num_bands)), the requirement being >= 8
req_bands_verified(num_bands) ==
    Requirement_verify(
        NumericConstraintValue(GREATER_THAN_OR_EQUAL, 8, Missing, Missing),
        num_bands)

\* the KPI evaluations, requirement verifications and constraint
\* verifications the demo computes for the evaluated spacecraft
demo_kpi_evaluation(k) ==
    IF k = 1
    THEN KPIEvaluation(1,
             kpi_gsd_result(payload_of(spacecraft).ground_sample_distance)
                 # BELOW_THRESHOLD)
    ELSE KPIEvaluation(2, kpi_revisit_result(revisit_iter1) # BELOW_THRESHOLD)

demo_requirement_verification(r) ==
    IF r = 1
    THEN RequirementVerification(1,
             req_gsd_verified(payload_of(spacecraft).ground_sample_distance))
    ELSE IF r = 2
    THEN RequirementVerification(2,
             req_swath_verified(payload_of(spacecraft).swath_width))
    ELSE RequirementVerification(3,
             req_bands_verified(payload_of(spacecraft).num_bands))

demo_constraint_verification(c) ==
    IF c = 1
    THEN ConstraintVerification(1,
             verify_mass_constraint(spacecraft, 1500)[1], FALSE)
    ELSE IF c = 2
    THEN ConstraintVerification(2,
             verify_power_constraint(spacecraft, 1200, "active")[1], TRUE)
    ELSE ConstraintVerification(3,
             verify_cost_constraint(spacecraft, 800)[1], TRUE)

\* sc_iter1 = create_spacecraft_bus(...); the payload's GSD and swath are
\* computed at 705 km and the payload is added
DemoSpacecraft ==
    /\ spacecraft = NoObject
    /\ spacecraft' = sc_iter1
    /\ ret' = ReturnsNone
    /\ UNCHANGED <<solObjs, evalObjs, missionVars, now, passed,
                   objectiveVars, constraint, typed, orbit, polygon>>

DemoAddSolution ==
    /\ spacecraft # NoObject
    /\ design_solutions = <<>>
    /\ add_design_solution(1)

DemoSetBaseline ==
    /\ design_solutions # <<>>
    /\ baseline_solution_id = None
    /\ set_baseline_solution(1)

DemoEvaluate ==
    /\ design_solutions # <<>>
    /\ evalObjs = <<>>
    /\ evaluate_solution(1)

\* the evaluation is filled in before its status is determined
DemoOpen == evalObjs # <<>> /\ evalObjs[1].overall_status = UNDER_EVALUATION

DemoAddKpi ==
    /\ DemoOpen
    /\ \E k \in (1..2) \ DOMAIN evalObjs[1].kpi_evaluations :
           add_kpi_evaluation(1, demo_kpi_evaluation(k))

DemoAddReq ==
    /\ DemoOpen
    /\ \E r \in (1..3) \ DOMAIN evalObjs[1].requirement_verifications :
           add_requirement_verification(1, demo_requirement_verification(r))

DemoAddCon ==
    /\ DemoOpen
    /\ \E c \in (1..3) \ DOMAIN evalObjs[1].constraint_verifications :
           add_constraint_verification(1, demo_constraint_verification(c))

DemoDetermine ==
    /\ DemoOpen
    /\ DOMAIN evalObjs[1].kpi_evaluations = 1..2
    /\ DOMAIN evalObjs[1].requirement_verifications = 1..3
    /\ DOMAIN evalObjs[1].constraint_verifications = 1..3
    /\ DetermineOverallStatus(1)

NextDemo ==
    \/ DemoSpacecraft
    \/ DemoAddSolution
    \/ DemoSetBaseline
    \/ DemoEvaluate
    \/ DemoAddKpi
    \/ DemoAddReq
    \/ DemoAddCon
    \/ DemoDetermine

SpecDemo == Init /\ [][NextDemo]_vars

----------------------------------------------------------------------------
(* The REST solution endpoints on one Mission *)

\* evaluation.add_requirement_verification(req_ver) for each of the list
RECURSIVE with_requirement_verifications(_, _)
with_requirement_verifications(ev, req_vers) ==
    IF req_vers = <<>> THEN ev
    ELSE with_requirement_verifications(
             [ev EXCEPT !.requirement_verifications =
                 DictSet(@, Head(req_vers).requirement_id, Head(req_vers))],
             Tail(req_vers))

\* POST /api/missions/<mission_id>/solutions/<solution_id>/evaluate with the
\* requirement verifications of the request
rest_evaluate_solution(solution_id, req_vers) ==
    LET solution == get_design_solution(solution_id)
        evaluation == Len(evalObjs) + 1
    IN IF solution = None
       THEN /\ ret' = Ret("Solution not found", 404)
            /\ UNCHANGED <<solObjs, evalObjs, missionVars, now, passed,
                           objectiveVars, constraint, engineVars>>
       ELSE /\ evalObjs' =
                   Append(evalObjs,
                          determine_overall_status(
                              with_requirement_verifications(
                                  SolutionEvaluation(solObjs[solution].id), req_vers)))
            /\ solution_evaluations' =
                   DictSet(solution_evaluations, solObjs[solution].id, evaluation)
            /\ last_modified' = now
            /\ ret' = Ret("evaluation", 201)
            /\ UNCHANGED <<solObjs, objectives, requirements, constraints,
                           design_solutions, design_iterations, baseline_solution_id,
                           selected_solution_id, now, passed,
                           objectiveVars, constraint, engineVars>>

\* POST /api/missions/<mission_id>/iterations
rest_add_design_iteration(solution_id, changes, notes) ==
    LET solution == get_design_solution(solution_id)
        stored == solution_id \in DOMAIN solution_evaluations
        evaluation == IF stored THEN solution_evaluations[solution_id]
                      ELSE Len(evalObjs) + 1
        iteration_num == Len(design_iterations) + 1
    IN IF solution = None
       THEN /\ ret' = Ret("Solution not found", 404)
            /\ UNCHANGED <<solObjs, evalObjs, missionVars, now, passed,
                           objectiveVars, constraint, engineVars>>
       ELSE /\ IF stored
               THEN UNCHANGED <<evalObjs, solution_evaluations>>
               ELSE /\ evalObjs' =
                          Append(evalObjs, SolutionEvaluation(solObjs[solution].id))
                    /\ solution_evaluations' =
                          DictSet(solution_evaluations, solObjs[solution].id,
                                  evaluation)
            /\ design_iterations' =
                   Append(design_iterations,
                          DesignIteration(iteration_num, solution, evaluation,
                                          notes, changes))
            /\ passed' =
                   Append(passed,
                          [solution |-> solution, evaluation |-> evaluation,
                           status |-> solObjs[solution].status,
                           entries |-> IF stored THEN Entries(evalObjs[evaluation])
                                       ELSE 0])
            /\ last_modified' = now
            /\ ret' = Ret("iteration", 201)
            /\ UNCHANGED <<solObjs, objectives, requirements, constraints,
                           design_solutions, baseline_solution_id,
                           selected_solution_id, now,
                           objectiveVars, constraint, engineVars>>

\* DELETE /api/missions/<mission_id>/solutions/<solution_id>
delete_design_solution(solution_id) ==
    LET Kept(s) == solObjs[s].id # solution_id
    IN /\ design_solutions' = SelectSeq(design_solutions, Kept)
       /\ last_modified' = now
       /\ ret' = Ret("Solution deleted", 200)
       /\ UNCHANGED <<solObjs, evalObjs, objectives, requirements, constraints,
                      solution_evaluations, design_iterations,
                      baseline_solution_id, selected_solution_id, now, passed,
                      objectiveVars, constraint, engineVars>>

\* the requirement verifications of an evaluation request
RequestVerifications ==
    {<<>>} \cup {<<RequirementVerification(r, v)>> : r \in ReqIds, v \in BOOLEAN}

CreateSolution ==
    /\ Len(solObjs) < MaxRestSolutions
    /\ \E sid \in SolIds : add_design_solution(sid)

RestEvaluate ==
    /\ Len(evalObjs) < MaxRestEvals
    /\ \E sid \in SolIds, req_vers \in RequestVerifications :
           rest_evaluate_solution(sid, req_vers)

RestSelect == \E sid \in SolIds : select_solution(sid)

RestAddIteration ==
    /\ Len(design_iterations) < MaxRestIterations
    /\ Len(evalObjs) < MaxRestEvals
    /\ \E sid \in SolIds, changes \in Changes, notes \in Notes :
           rest_add_design_iteration(sid, changes, notes)

RestDelete == \E sid \in SolIds : delete_design_solution(sid)

NextRest ==
    \/ CreateSolution
    \/ SetBaseline
    \/ RestEvaluate
    \/ RestSelect
    \/ RestAddIteration
    \/ RestDelete

SpecRest == Init /\ [][NextRest]_vars

----------------------------------------------------------------------------
(* Status of a DesignSolution *)

Stage(st) ==
    CASE st = PROPOSED -> 1
      [] st = UNDER_EVALUATION -> 2
      [] st \in {REQUIREMENTS_MET, REQUIREMENTS_NOT_MET} -> 3
      [] st \in {SELECTED, REJECTED} -> 4

\* the solution s is the one an evaluation is stored for
IsEvaluated(s) == solObjs[s].id \in DOMAIN solution_evaluations

\* C1 as stated: every step of a Mission leaves the status of each
\* DesignSolution as it is or moves it to the next stage of
\* proposed -> under_evaluation -> {requirements_met, requirements_not_met}
\* -> {selected, rejected}; no stage is skipped and none is gone back to.
C1_StatusFollowsStages ==
    [][\A s \in SolRefs :
          \/ solObjs'[s].status = solObjs[s].status
          \/ Stage(solObjs'[s].status) = Stage(solObjs[s].status) + 1]_vars

\* C1 amended: the only Mission operation that changes the status of a
\* DesignSolution is set_selected_solution, on the solution its id resolves
\* to, and it sets the status to selected from whatever it was (so proposed
\* goes to selected directly); the status never moves to an earlier stage.
C1_StatusChangesOnlyBySelection ==
    [][\A s \in SolRefs :
          solObjs'[s].status # solObjs[s].status =>
              /\ solObjs'[s].status = SELECTED
              /\ Stage(solObjs'[s].status) >= Stage(solObjs[s].status)
              /\ \E sid \in SolIds :
                     get_design_solution(sid) = s /\ set_selected_solution(sid)]_vars

\* C1 witness: a solution was selected, and an evaluation is stored for it
\* that determine_overall_status has been called on.
C1_Witness ==
    \E s \in SolRefs :
        /\ solObjs[s].status = SELECTED
        /\ IsEvaluated(s)
        /\ evalObjs[solution_evaluations[solObjs[s].id]].overall_status
               = REQUIREMENTS_NOT_MET
        /\ design_iterations # <<>>
        /\ baseline_solution_id # None

----------------------------------------------------------------------------
(* SolutionEvaluation *)

AllCriticalVerified(ev) ==
    \A c \in DOMAIN ev.constraint_verifications :
        ~ev.constraint_verifications[c].is_negotiable
            => ev.constraint_verifications[c].verified

\* C3: when determine_overall_status() returns, overall_status is
\* requirements_met if all_requirements_met and all_critical_constraints_met
\* are both true and requirements_not_met if not; it is not under_evaluation.
C3_OverallStatusFromFlags ==
    [][\A e \in EvalRefs :
          DetermineOverallStatus(e) =>
              LET ev == evalObjs'[e]
                  both == ev.all_requirements_met /\ ev.all_critical_constraints_met
              IN /\ (ev.overall_status = REQUIREMENTS_MET) <=> both
                 /\ (ev.overall_status = REQUIREMENTS_NOT_MET) <=> ~both
                 /\ ev.overall_status # UNDER_EVALUATION]_vars

\* C3 witness: determine_overall_status has set requirements_met on an
\* evaluation whose two flags are true.
C3_Witness ==
    \E e \in EvalRefs :
        /\ evalObjs[e].overall_status = REQUIREMENTS_MET
        /\ evalObjs[e].all_requirements_met
        /\ evalObjs[e].all_critical_constraints_met

\* C4 as stated: when determine_overall_status() returns on an evaluation
\* whose non-negotiable constraint verifications, however many, are all
\* verified, all_critical_constraints_met is true, also when a negotiable
\* constraint verification has failed.
C4_CriticalFlagIgnoresNegotiable ==
    [][\A e \in EvalRefs :
          (DetermineOverallStatus(e) /\ AllCriticalVerified(evalObjs'[e]))
              => evalObjs'[e].all_critical_constraints_met]_vars

\* what the entries of an evaluation make its rates and flags
RatesMatchEntries(ev) ==
    /\ Size(ev.kpi_evaluations) # 0 =>
           ev.kpi_success_rate =
               Percent(CountThresholdMet(ev.kpi_evaluations), Size(ev.kpi_evaluations))
    /\ Size(ev.requirement_verifications) # 0 =>
           /\ ev.requirement_success_rate =
                  Percent(CountVerified(ev.requirement_verifications),
                          Size(ev.requirement_verifications))
           /\ ev.all_requirements_met =
                  \A r \in DOMAIN ev.requirement_verifications :
                      ev.requirement_verifications[r].verified
    /\ Size(ev.constraint_verifications) # 0 =>
           /\ ev.constraint_success_rate =
                  Percent(CountVerified(ev.constraint_verifications),
                          Size(ev.constraint_verifications))
           /\ ev.all_critical_constraints_met = AllCriticalVerified(ev)

\* C5 as stated: in every state of a SolutionEvaluation the stored success
\* rates and the two met-flags are those of its current entries.
C5_RatesNeverStale == \A e \in EvalRefs : RatesMatchEntries(evalObjs[e])

\* C6: a second determine_overall_status() right after the first, with no
\* entry added in between, leaves the three rates, the two flags and
\* overall_status as the first call left them.
C6_DetermineIdempotent ==
    [][\A e \in EvalRefs :
          DetermineOverallStatus(e) =>
              determine_overall_status(evalObjs'[e]) = evalObjs'[e]]_vars

\* C6 witness: determine_overall_status has been called on an evaluation
\* that holds a KPI evaluation, a requirement verification and two
\* constraint verifications of which one failed.
C6_Witness ==
    \E e \in EvalRefs :
        /\ evalObjs[e].overall_status # UNDER_EVALUATION
        /\ Size(evalObjs[e].kpi_evaluations) # 0
        /\ Size(evalObjs[e].requirement_verifications) # 0
        /\ evalObjs[e].constraint_success_rate = Percent(1, 2)
        /\ RatesMatchEntries(evalObjs[e])

----------------------------------------------------------------------------
(* Evaluations and iterations of a Mission *)

IsFresh(ev) ==
    /\ ev.kpi_evaluations = EmptyDict
    /\ ev.requirement_verifications = EmptyDict
    /\ ev.constraint_verifications = EmptyDict
    /\ ev.kpi_success_rate = ZeroRate
    /\ ev.requirement_success_rate = ZeroRate
    /\ ev.constraint_success_rate = ZeroRate
    /\ ~ev.all_requirements_met
    /\ ~ev.all_critical_constraints_met

\* C7: evaluate_solution(id) for a solution that already has an evaluation
\* stores under the same key another SolutionEvaluation, with empty KPI,
\* requirement and constraint maps, rates 0 and flags false; the evaluation
\* that was stored is not the one stored now, and solution_evaluations has
\* the keys it had.
C7_ReevaluationReplaces ==
    [][\A sid \in SolIds :
          (/\ get_design_solution(sid) # None
           /\ sid \in DOMAIN solution_evaluations
           /\ evaluate_solution(sid))
          => /\ DOMAIN solution_evaluations' = DOMAIN solution_evaluations
             /\ solution_evaluations'[sid] # solution_evaluations[sid]
             /\ solution_evaluations'[sid] \notin EvalRefs
             /\ IsFresh(evalObjs'[solution_evaluations'[sid]])
             /\ \A e \in EvalRefs : evalObjs'[e] = evalObjs[e]]_vars

\* C7 witness: a second evaluate_solution has just returned for a solution
\* whose first evaluation held entries and had its status determined.
C7_Witness ==
    /\ Len(evalObjs) = 2
    /\ ret = Ret("value", 2)
    /\ \E sid \in DOMAIN solution_evaluations :
           /\ solution_evaluations[sid] = 2
           /\ evalObjs[1].solution_id = sid
           /\ Entries(evalObjs[1]) = 2
           /\ evalObjs[1].overall_status = REQUIREMENTS_MET
           /\ IsFresh(evalObjs[2])

\* C8: the k-th entry of design_iterations has iteration_number k.
C8_IterationsNumbered ==
    \A k \in 1..Len(design_iterations) : design_iterations[k].iteration_number = k

\* C8 witness: two iterations were added, both for the same solution.
C8_Witness ==
    /\ Len(design_iterations) = 2
    /\ design_iterations[1].solution = design_iterations[2].solution
    /\ Len(solObjs) = 2

\* C9: every step of a Mission leaves the iterations it had at the head of
\* design_iterations, each with the number, solution, evaluation and notes
\* it had.
C9_IterationsAppendOnly ==
    [][/\ Len(design_iterations') >= Len(design_iterations)
       /\ \A k \in 1..Len(design_iterations) :
              design_iterations'[k] = design_iterations[k]]_vars

\* C9 witness: a second iteration was added after a first one with other
\* notes, for a solution that has since been selected, in a mission that has
\* an objective.
C9_Witness ==
    /\ Len(design_iterations) = 2
    /\ design_iterations[1].iteration_notes # design_iterations[2].iteration_notes
    /\ solObjs[design_iterations[1].solution].status = SELECTED
    /\ passed[1].status = PROPOSED
    /\ objectives # <<>>

\* C10: what a past iteration shows as its solution and its evaluation is
\* the present state of the objects given to add_design_iteration: a step
\* that selects that solution shows as status selected through the
\* iteration, and a step that changes that evaluation shows through it.
C10_IterationSharesObjects ==
    [][\A k \in 1..Len(design_iterations) :
          LET it == design_iterations[k]
              given == passed[k]
          IN /\ \A sid \in SolIds :
                    (get_design_solution(sid) = given.solution
                        /\ set_selected_solution(sid))
                    => solObjs'[it.solution].status = SELECTED
             /\ evalObjs'[given.evaluation] # evalObjs[given.evaluation]
                    => evalObjs'[it.evaluation] = evalObjs'[given.evaluation]]_vars

\* C10 witness: an iteration was added for a proposed solution and an empty
\* evaluation; the iteration now shows the solution selected and the
\* evaluation with two entries and a determined status.
C10_Witness ==
    \E k \in 1..Len(design_iterations) :
        /\ passed[k].status = PROPOSED
        /\ passed[k].entries = 0
        /\ solObjs[design_iterations[k].solution].status = SELECTED
        /\ Entries(evalObjs[design_iterations[k].evaluation]) = 2
        /\ evalObjs[design_iterations[k].evaluation].overall_status
               # UNDER_EVALUATION

----------------------------------------------------------------------------
(* Selecting a solution *)

EvaluationOf(s) == evalObjs[solution_evaluations[solObjs[s].id]]

\* C11: a call of set_selected_solution (directly or through the
\* select-solution handler) with the id of an existing solution sets
\* selected_solution_id to that id and the status of the solution the id
\* resolves to to selected, whatever status the solution had and whatever
\* the overall_status of its evaluation is.
C11_SelectFromAnyStatus ==
    [][\A sid \in SolIds :
          (/\ get_design_solution(sid) # None
           /\ set_selected_solution(sid) \/ select_solution(sid))
          => /\ selected_solution_id' = sid
             /\ solObjs'[get_design_solution(sid)].status = SELECTED]_vars

\* a solution whose evaluation failed the requirements has just been selected
C11_Witness ==
    /\ ret.kind = "Solution selected"
    /\ \E s \in SolRefs :
          /\ selected_solution_id = solObjs[s].id
          /\ solObjs[s].status = SELECTED
          /\ HasEvaluation(s)
          /\ EvaluationOf(s).overall_status = REQUIREMENTS_NOT_MET

----------------------------------------------------------------------------
(* Lookups that miss *)

Unknown(sid) ==
    \A i \in 1..Len(design_solutions) : solObjs[design_solutions[i]].id # sid

\* C12: evaluate_solution with an id that no solution of design_solutions
\* has raises and leaves the mission as it was (no key added to
\* solution_evaluations, last_modified not updated, no status changed), and
\* get_design_solution returns None for that id.
C12_EvaluateUnknownRaises ==
    [][\A sid \in SolIds :
          (Unknown(sid) /\ evaluate_solution(sid))
          => /\ ret'.kind = "raise"
             /\ UNCHANGED <<missionVars, solObjs, evalObjs>>
             /\ get_design_solution(sid) = None]_vars

\* the call raised on a mission that holds a solution with another id, some
\* time after the last change
C12_Witness ==
    /\ ret.kind = "raise"
    /\ design_solutions # <<>>
    /\ solution_evaluations = EmptyDict
    /\ last_modified < now

\* C13: set_baseline_solution and set_selected_solution with an id that no
\* solution has change nothing (baseline_solution_id, selected_solution_id,
\* last_modified and the status of every solution stay) and return normally.
C13_SettersIgnoreUnknown ==
    [][\A sid \in SolIds :
          (/\ Unknown(sid)
           /\ set_baseline_solution(sid) \/ set_selected_solution(sid))
          => /\ UNCHANGED <<baseline_solution_id, selected_solution_id,
                            last_modified, solObjs>>
             /\ ret' = ReturnsNone]_vars

\* a mission with a solution and nothing else, whose last call returned None:
\* that call was a setter with an id no solution has
C13_Witness ==
    /\ design_solutions # <<>>
    /\ Items = 0
    /\ evalObjs = <<>>
    /\ baseline_solution_id = None
    /\ selected_solution_id = None
    /\ ret = ReturnsNone
    /\ last_modified < now

----------------------------------------------------------------------------
(* last_modified *)

\* C14: every call of a Mission method that changes the mission
\* (add_objective, add_requirement, add_constraint, add_design_solution,
\* add_design_iteration, and evaluate_solution, set_baseline_solution and
\* set_selected_solution with a known id) leaves last_modified at the time of
\* the call; last_modified never decreases and is never later than now.
C14_LastModifiedFollowsMutation ==
    [][/\ (\/ <<objectives, requirements, constraints, design_solutions,
               solution_evaluations, design_iterations, baseline_solution_id,
               selected_solution_id>>'
                 # <<objectives, requirements, constraints, design_solutions,
                     solution_evaluations, design_iterations, baseline_solution_id,
                     selected_solution_id>>
           \/ solObjs' # solObjs)
          => last_modified' = now
       /\ \A sid \in SolIds :
             (/\ get_design_solution(sid) # None
              /\ \/ evaluate_solution(sid)
                 \/ set_baseline_solution(sid)
                 \/ set_selected_solution(sid))
             => last_modified' = now
       /\ last_modified' >= last_modified
       /\ last_modified' <= now']_vars

\* a mission changed after time has passed
C14_Witness ==
    /\ now > 0
    /\ last_modified = now
    /\ design_solutions # <<>>

----------------------------------------------------------------------------
(* KPI tiers *)

\* whether the operator and value of a threshold hold for x; a threshold
\* with the operator between has one value and no range, and holds for no x
Holds(t, x) ==
    CASE t.operator = "<" -> x < t.value
      [] t.operator = "<=" -> x <= t.value
      [] t.operator = "==" -> x = t.value
      [] t.operator = ">=" -> x >= t.value
      [] t.operator = ">" -> x > t.value
      [] t.operator = "!=" -> x # t.value
      [] OTHER -> FALSE

TierHolds(kpi, level, x) ==
    \E i \in 1..Len(kpi.thresholds) :
        /\ lower(kpi.thresholds[i].level) = level
        /\ Holds(kpi.thresholds[i], x)

TierExists(kpi, level) ==
    \E i \in 1..Len(kpi.thresholds) : lower(kpi.thresholds[i].level) = level

Resolved(kpi, x) ==
    IF TierHolds(kpi, "target", x) THEN TARGET_MET
    ELSE IF TierHolds(kpi, "baseline", x) THEN BASELINE_MET
    ELSE IF TierHolds(kpi, "threshold", x) THEN THRESHOLD_MET
    ELSE BELOW_THRESHOLD

\* C15: for a KPI with any subset of the tiers target, baseline and
\* threshold, evaluate_performance(actual) returns target_met when there is
\* a target tier that holds for actual, otherwise baseline_met when there is
\* a baseline tier that holds, otherwise threshold_met when there is a
\* threshold tier that holds, otherwise below_threshold; the status returned
\* is stored as the status of the KPI.
C15_TierResolution ==
    [][\A k \in KpiRefs, x \in ActualValues :
          evaluate_performance(k, x)
          => /\ ret' = Ret("value", Resolved(kpiObjs[k], x))
             /\ kpiObjs'[k].status = Resolved(kpiObjs[k], x)
             /\ kpiObjs'[k].current_value = x]_vars

\* a KPI without a threshold tier, whose target tier does not hold for the
\* value evaluated and whose baseline tier does, was found baseline_met
C15_Witness ==
    \E k \in KpiRefs :
        /\ kpiObjs[k].current_value # Missing
        /\ TierExists(kpiObjs[k], "target")
        /\ ~TierExists(kpiObjs[k], "threshold")
        /\ ~TierHolds(kpiObjs[k], "target", kpiObjs[k].current_value)
        /\ TierHolds(kpiObjs[k], "baseline", kpiObjs[k].current_value)
        /\ kpiObjs[k].status = BASELINE_MET
        /\ ret.kind = "value"
        /\ ret.val = BASELINE_MET

----------------------------------------------------------------------------
(* Objective aggregation *)

Rank(st) ==
    CASE st = NOT_EVALUATED -> 0
      [] st = BELOW_THRESHOLD -> 1
      [] st = THRESHOLD_MET -> 2
      [] st = BASELINE_MET -> 3
      [] st = TARGET_MET -> 4
      [] st = EXCEEDED -> 5

\* result is the status of minimum rank among the statuses of the children
IsWeakest(result, children) ==
    /\ \E i \in 1..Len(children) : children[i] = result
    /\ \A i \in 1..Len(children) : Rank(result) <= Rank(children[i])

\* what the last call of evaluate_objective returned is what the objective
\* evaluates to
ReturnedIsCurrent ==
    /\ ret.kind = "value"
          => ret.val = quantitative_evaluate_objective(qoObjs[passed[1]])
    /\ ret.kind = "mission value" => ret.val = mission_evaluate_objective

\* C16: QuantitativeObjective.evaluate_objective returns the status of
\* minimum rank among the statuses of its KPIs, and
\* MissionObjective.evaluate_objective the status of minimum rank among the
\* results of its quantitative objectives, with not_evaluated <
\* below_threshold < threshold_met < baseline_met < target_met < exceeded:
\* the result is never stronger than the status of a child.
C16_WeakestChildStatus ==
    /\ ReturnedIsCurrent
    /\ \A q \in QoRefs :
          qoObjs[q].kpis # <<>>
          => IsWeakest(quantitative_evaluate_objective(qoObjs[q]),
                       KpiStatuses(qoObjs[q]))
    /\ quantitative_objectives # <<>>
          => IsWeakest(mission_evaluate_objective, QoResults)

\* the mission objective was evaluated to the weaker of two different
\* results of its quantitative objectives, the second of them
C16_Witness ==
    /\ ret.kind = "mission value"
    /\ Len(quantitative_objectives) = 2
    /\ Rank(QoResults[2]) < Rank(QoResults[1])
    /\ Rank(QoResults[2]) > 0
    /\ ret.val = QoResults[2]

\* C17 as stated: evaluate_objective returns not_evaluated only for an
\* objective without children; with at least one KPI / quantitative
\* objective the result is one of below_threshold, threshold_met,
\* baseline_met, target_met, exceeded.
C17_NotEvaluatedOnlyWithoutChildren ==
    /\ \A q \in QoRefs :
          qoObjs[q].kpis # <<>>
          => quantitative_evaluate_objective(qoObjs[q]) # NOT_EVALUATED
    /\ quantitative_objectives # <<>>
          => mission_evaluate_objective # NOT_EVALUATED

HasUnevaluated(children) ==
    \E i \in 1..Len(children) : children[i] = NOT_EVALUATED

\* C17: evaluate_objective returns not_evaluated exactly when the objective
\* has no children or one of its children is not_evaluated (a KPI that was
\* never evaluated, a quantitative objective that itself evaluates to
\* not_evaluated); otherwise the result is one of below_threshold,
\* threshold_met, baseline_met, target_met, exceeded.
C17_NotEvaluatedFromChildren ==
    /\ ReturnedIsCurrent
    /\ \A q \in QoRefs :
          /\ quantitative_evaluate_objective(qoObjs[q]) \in ObjectiveStatus
          /\ quantitative_evaluate_objective(qoObjs[q]) = NOT_EVALUATED
                <=> (qoObjs[q].kpis = <<>> \/ HasUnevaluated(KpiStatuses(qoObjs[q])))
    /\ mission_evaluate_objective \in ObjectiveStatus
    /\ mission_evaluate_objective = NOT_EVALUATED
          <=> (quantitative_objectives = <<>> \/ HasUnevaluated(QoResults))

\* a quantitative objective with two KPIs, one of them evaluated and one
\* not, was evaluated to not_evaluated
C17_Witness ==
    /\ ret.kind = "value"
    /\ ret.val = NOT_EVALUATED
    /\ Len(qoObjs[passed[1]].kpis) = 2
    /\ \E i \in 1..2 : KpiStatuses(qoObjs[passed[1]])[i] = TARGET_MET

----------------------------------------------------------------------------
(* NumericConstraintValue *)

SingleValueOperators == {"<", "<=", "==", ">=", ">", "!="}

MustFail(c) ==
    \/ /\ c.operator = "between"
       /\ \/ c.min_value = Missing
          \/ c.max_value = Missing
          \/ c.min_value >= c.max_value
    \/ /\ c.operator \in SingleValueOperators
       /\ c.value = Missing

\* C18: constructing a NumericConstraintValue raises, and no object
\* results, when the operator is between and min_value or max_value is
\* missing or min_value >= max_value, and when the operator is one of <, <=,
\* ==, >=, >, != and value is missing; in every other case the object is
\* constructed with the fields given.  (A step that ends with an object or a
\* raise is a constructor call, whose arguments are in passed.)
C18_ConstructionFailsOnShape ==
    [][ret'.kind \in {"raise", "object"}
          => LET c == passed'[1]
             IN /\ new_constraint(c.operator, c.value, c.min_value, c.max_value)
                /\ IF MustFail(c)
                   THEN ret'.kind = "raise" /\ constraint' = NoObject
                   ELSE ret'.kind = "object" /\ constraint' = c]_vars

\* a between with equal bounds was refused
C18_Witness ==
    /\ ret.kind = "raise"
    /\ constraint = NoObject
    /\ passed[1].operator = "between"
    /\ passed[1].min_value # Missing
    /\ passed[1].min_value = passed[1].max_value

\* C19 as stated: a constructed NumericConstraintValue has exactly one of
\* the two value shapes populated: a between has min_value and max_value
\* set and value unset, any other operator has value set and min_value and
\* max_value unset.
C19_ExactlyOneShape ==
    constraint # NoObject
    => IF constraint.operator = "between"
       THEN /\ constraint.min_value # Missing
            /\ constraint.max_value # Missing
            /\ constraint.value = Missing
       ELSE /\ constraint.value # Missing
            /\ constraint.min_value = Missing
            /\ constraint.max_value = Missing

Comparator(c, x) ==
    CASE c.operator = "<" -> x < c.value
      [] c.operator = "<=" -> x <= c.value
      [] c.operator = "==" -> x = c.value
      [] c.operator = ">=" -> x >= c.value
      [] c.operator = ">" -> x > c.value
      [] c.operator = "!=" -> x # c.value
      [] c.operator = "between" -> c.min_value <= x /\ x <= c.max_value

\* C20: for a constructed NumericConstraintValue and a test value x,
\* evaluate(x) is x < v, x <= v, x == v, x >= v, x > v or x != v for the six
\* single-value operators and min_value <= x <= max_value, both bounds
\* included, for between; evaluate changes no field of the constraint, and
\* Requirement.verify and Constraint.verify return the same result.
C20_EvaluateIsExactComparator ==
    [][\A x \in TestValues :
          (\/ call_evaluate(x)
           \/ call_requirement_verify(x)
           \/ call_constraint_verify(x))
          => /\ ret' = Ret("value", Comparator(constraint, x))
             /\ constraint' = constraint]_vars

\* a between was found to hold for its upper bound
C20_Witness ==
    /\ ret.kind = "value"
    /\ ret.val = TRUE
    /\ constraint.operator = "between"
    /\ passed = <<constraint, constraint.max_value>>

----------------------------------------------------------------------------
(* The verification maps of a SolutionEvaluation *)

\* what dict[key] = value leaves in a map that held old
Written(old, new, key, value) ==
    /\ new[key] = value
    /\ \A x \in (DOMAIN old) \ {key} : x \in DOMAIN new /\ new[x] = old[x]
    /\ Size(new) = Size(old) + (IF key \in DOMAIN old THEN 0 ELSE 1)

\* the distinct subject ids of the entries of a map
KpiSubjects(d) == {d[x].kpi_id : x \in DOMAIN d}
RequirementSubjects(d) == {d[x].requirement_id : x \in DOMAIN d}
ConstraintSubjects(d) == {d[x].constraint_id : x \in DOMAIN d}

\* C23: each of the three verification maps of a SolutionEvaluation holds
\* at most one entry per subject id: adding an entry whose id is present
\* replaces the earlier entry and leaves the size of the map as it was,
\* adding one whose id is new grows the map by one, and the denominators
\* of the success rates count the distinct ids.
C23_LastWriteWins ==
    [][\A e \in EvalRefs :
          /\ \A k \in KpiIds, met \in BOOLEAN :
                 add_kpi_evaluation(e, KPIEvaluation(k, met)) =>
                     Written(evalObjs[e].kpi_evaluations,
                             evalObjs'[e].kpi_evaluations,
                             k, KPIEvaluation(k, met))
          /\ \A r \in ReqIds, v \in BOOLEAN :
                 add_requirement_verification(e, RequirementVerification(r, v)) =>
                     Written(evalObjs[e].requirement_verifications,
                             evalObjs'[e].requirement_verifications,
                             r, RequirementVerification(r, v))
          /\ \A c \in ConIds, v \in BOOLEAN, neg \in BOOLEAN :
                 add_constraint_verification(e, ConstraintVerification(c, v, neg)) =>
                     Written(evalObjs[e].constraint_verifications,
                             evalObjs'[e].constraint_verifications,
                             c, ConstraintVerification(c, v, neg))
          /\ DetermineOverallStatus(e) =>
                 LET ev == evalObjs'[e]
                     kpis == KpiSubjects(ev.kpi_evaluations)
                     reqs == RequirementSubjects(ev.requirement_verifications)
                     cons == ConstraintSubjects(ev.constraint_verifications)
                 IN /\ kpis # {} =>
                           ev.kpi_success_rate =
                               Percent(CountThresholdMet(ev.kpi_evaluations),
                                       Cardinality(kpis))
                    /\ reqs # {} =>
                           ev.requirement_success_rate =
                               Percent(CountVerified(ev.requirement_verifications),
                                       Cardinality(reqs))
                    /\ cons # {} =>
                           ev.constraint_success_rate =
                               Percent(CountVerified(ev.constraint_verifications),
                                       Cardinality(cons))]_vars

\* C23 witness: determine_overall_status found the only requirement
\* verification verified, and the entry now held under the same id, written
\* since, is a failed one: the map still has one entry.
C23_Witness ==
    \E e \in EvalRefs :
        LET ev == evalObjs[e]
        IN /\ ev.overall_status # UNDER_EVALUATION
           /\ ev.all_requirements_met
           /\ ev.requirement_success_rate = Percent(1, 1)
           /\ Size(ev.requirement_verifications) = 1
           /\ \E r \in DOMAIN ev.requirement_verifications :
                  ~ev.requirement_verifications[r].verified

\* an evaluation on which determine_overall_status() has returned and whose
\* entries have not changed since
IsDetermined(ev) == determine_overall_status(ev) = ev

SameEntries(a, b) ==
    /\ a.kpi_evaluations = b.kpi_evaluations
    /\ a.requirement_verifications = b.requirement_verifications
    /\ a.constraint_verifications = b.constraint_verifications

\* C28 as stated: after determine_overall_status(), two SolutionEvaluations
\* that hold the same current entries have the same all_requirements_met,
\* all_critical_constraints_met and overall_status, whatever was written
\* and determined on them before.
C28_FlagsFromCurrentEntries ==
    \A a \in EvalRefs, b \in EvalRefs :
        (/\ IsDetermined(evalObjs[a])
         /\ IsDetermined(evalObjs[b])
         /\ SameEntries(evalObjs[a], evalObjs[b]))
            => /\ evalObjs[a].all_requirements_met = evalObjs[b].all_requirements_met
               /\ evalObjs[a].all_critical_constraints_met =
                      evalObjs[b].all_critical_constraints_met
               /\ evalObjs[a].overall_status = evalObjs[b].overall_status

----------------------------------------------------------------------------
(* The selected solution of a Mission *)

MarkedSelected == {s \in SolRefs : solObjs[s].status = SELECTED}

\* C29 as stated: at most one DesignSolution of a Mission has status
\* selected, and when selected_solution_id is set the solutions with status
\* selected are exactly the one it names.
C29_OneSelected ==
    /\ Cardinality(MarkedSelected) <= 1
    /\ selected_solution_id # None =>
           MarkedSelected = {get_design_solution(selected_solution_id)}

----------------------------------------------------------------------------
(* compare_solutions *)

\* the solutions the ids name, in the order of the ids, unknown ids left out
RECURSIVE Named(_)
Named(ids) ==
    IF ids = <<>> THEN <<>>
    ELSE LET s == get_design_solution(Head(ids))
         IN (IF s = None THEN <<>> ELSE <<s>>) \o Named(Tail(ids))

\* of these solutions, in order, those with an entry in solution_evaluations
RECURSIVE Evaluated(_)
Evaluated(sols) ==
    IF sols = <<>> THEN <<>>
    ELSE (IF solObjs[Head(sols)].id \in DOMAIN solution_evaluations
          THEN <<Head(sols)>> ELSE <<>>) \o Evaluated(Tail(sols))

\* C24: compare_solutions(ids) does not raise and changes nothing of the
\* mission, its solutions and its evaluations; ids that match no solution
\* are dropped, the report lists the known solutions in the order of the
\* ids, it gives the status and the three rates of the stored evaluation
\* for the listed solutions that have one and for no other, and when no id
\* is known the result is the text 'No solutions found for comparison.'.
C24_CompareReportsKnown ==
    [][\A ids \in CompareLists :
          compare_solutions(ids) =>
              /\ UNCHANGED <<solObjs, evalObjs, missionVars>>
              /\ ret'.kind # "raise"
              /\ IF Named(ids) = <<>>
                 THEN ret' = Ret("No solutions found for comparison.", None)
                 ELSE /\ ret'.kind = "report"
                      /\ ret'.val = Len(Named(ids))
                      /\ ret'.listed = Named(ids)
                      /\ Len(ret'.figures) = Len(Evaluated(Named(ids)))
                      /\ \A i \in 1..Len(ret'.figures) :
                             LET s == Evaluated(Named(ids))[i]
                                 ev == evalObjs[solution_evaluations[solObjs[s].id]]
                             IN /\ ret'.figures[i].solution = s
                                /\ ret'.figures[i].status = ev.overall_status
                                /\ ret'.figures[i].kpi = ev.kpi_success_rate
                                /\ ret'.figures[i].req = ev.requirement_success_rate
                                /\ ret'.figures[i].con = ev.constraint_success_rate]_vars

\* C24 witness: a report that lists two solutions in the order of the ids,
\* the reverse of their order in design_solutions, and has the figures of
\* the only one of them that was evaluated.
C24_Witness ==
    /\ ret.kind = "report"
    /\ Len(design_solutions) = 2
    /\ ret.listed = <<design_solutions[2], design_solutions[1]>>
    /\ solObjs[design_solutions[1]].id # solObjs[design_solutions[2]].id
    /\ Len(ret.figures) = 1
    /\ ret.figures[1].solution = design_solutions[1]
    /\ ret.figures[1].status = REQUIREMENTS_NOT_MET

----------------------------------------------------------------------------
(* GeoPolygon *)

\* C27 as stated: after construction and after any sequence of add_point
\* calls a GeoPolygon has no point or between 3 and 20 points.
C27_PointCountInRange ==
    \/ Len(polygon) = 0
    \/ (MIN_POINTS <= Len(polygon) /\ Len(polygon) <= MAX_POINTS)

----------------------------------------------------------------------------
(* Orbit *)

\* C26 as stated: an Orbit constructed with eccentricity below 0.001 has
\* altitude = semi_major_axis - 6378.137 whether or not an altitude was
\* given; one with eccentricity 0.001 or more keeps the altitude it was
\* given, or none, and has perigee and apogee altitudes a*(1-e) - 6378.137
\* and a*(1+e) - 6378.137.
C26_CircularAltitude ==
    orbit # NoObject =>
        LET a == orbit.semi_major_axis
            e == orbit.eccentricity
        IN IF e < CIRCULAR_BELOW
           THEN orbit.altitude = a - EARTH_RADIUS
           ELSE /\ orbit.altitude = passed[1].altitude
                /\ (a - EARTH_RADIUS) * ECC_SCALE - orbit.perigee_altitude = a * e
                /\ orbit.apogee_altitude - (a - EARTH_RADIUS) * ECC_SCALE = a * e

----------------------------------------------------------------------------
(* Units of the typed subclasses *)

DistanceUnits == {"m", "km", "cm", "mm", "um", "nm"}
TimeUnits == {"s", "min", "hr", "days", "years"}
AngleUnits == {"deg", "rad"}
Dimensionless == {"%", "count", ""}

\* The units a quantity of the subtype can be given in, each set at least
\* as wide as what the subtype is about: an orbital parameter is a length,
\* a time, an angle or a pure number.
QuantityUnits(subtype) ==
    CASE subtype \in {"SpatialResolutionRequirement", "SwathWidthRequirement"} ->
             DistanceUnits
      [] subtype \in {"TemporalResolutionRequirement", "DataLatencyRequirement",
                      "ScheduleConstraint"} -> TimeUnits
      [] subtype = "SpectralResolutionRequirement" -> DistanceUnits \cup Dimensionless
      [] subtype = "RadiometricResolutionRequirement" -> {"bits"} \cup Dimensionless
      [] subtype = "CoverageAreaRequirement" -> DistanceUnits \cup Dimensionless
      [] subtype = "BudgetConstraint" -> {"USD", "EUR"}
      [] subtype = "OrbitalConstraint" ->
             DistanceUnits \cup TimeUnits \cup AngleUnits \cup Dimensionless
      [] subtype = "MassConstraint" -> {"kg", "g", "tonnes"}
      [] subtype = "PowerConstraint" -> {"W", "kW"}

\* C21 as stated: every typed Requirement or Constraint subtype, the
\* orbital constraint among them, rejects construction when the unit of the
\* NumericConstraintValue is outside the units of the subtype: the
\* constructor raises and no object is created.
C21_SubtypesRejectForeignUnits ==
    [][\A subtype \in Subtypes :
          \A unit \in Unit \ QuantityUnits(subtype) :
              new_typed(subtype, unit) =>
                  /\ ret'.kind = "raise"
                  /\ typed' = typed]_vars

----------------------------------------------------------------------------
(* Spacecraft rollups *)

\* the components' values of one kind, added one by one
RECURSIVE Rollup(_, _, _)
Rollup(components, kind, n) ==
    IF n = 0 THEN 0
    ELSE Rollup(components, kind, n - 1) +
         (CASE kind = "mass" -> components[n].mass
            [] kind = "active" -> components[n].active_power
            [] kind = "passive" -> components[n].passive_power
            [] kind = "cost" -> components[n].cost)

\* (total <= limit, total) for total = rollup * (1 + margin/100), in
\* hundredths
Expected(kind, margin, limit) ==
    LET rollup == Rollup(spacecraft.components, kind, Len(spacecraft.components))
        total == rollup * 100 + rollup * margin
    IN <<total <= limit * 100, total>>

\* C22: verify_mass_constraint, verify_power_constraint and
\* verify_cost_constraint return (total <= limit, total), where total is
\* the sum of the components' mass, power in the given mode or cost, times
\* (1 + margin/100) with the margin of that quantity applied once; the
\* spacecraft is left as it was.
C22_VerifyIsMarginedSumAtMostLimit ==
    [][spacecraft # NoObject =>
          \A limit \in Limits :
              /\ call_verify_mass_constraint(limit) =>
                     /\ ret'.listed = Expected("mass", spacecraft.dry_mass_margin, limit)
                     /\ spacecraft' = spacecraft
              /\ \A mode \in Modes :
                     call_verify_power_constraint(limit, mode) =>
                         /\ ret'.listed = Expected(mode, spacecraft.power_margin, limit)
                         /\ spacecraft' = spacecraft
              /\ call_verify_cost_constraint(limit) =>
                     /\ ret'.listed = Expected("cost", spacecraft.cost_margin, limit)
                     /\ spacecraft' = spacecraft]_vars

\* C22 witness: verify_mass_constraint on a spacecraft of two components
\* with a margin of 50 percent returned true for a total equal to the
\* limit, where a Constraint with operator < on the same limit fails.
C22_Witness ==
    /\ ret.kind = "verify_mass_constraint"
    /\ Len(spacecraft.components) = 2
    /\ spacecraft.dry_mass_margin = 50
    /\ ret.listed[1] = TRUE
    /\ ret.listed[2] = passed[1] * 100
    /\ ret.listed[2] > 0
    /\ ~Constraint_verify(NumericConstraintValue(LESS_THAN, passed[1] * 100,
                                                 Missing, Missing),
                          ret.listed[2])

----------------------------------------------------------------------------
(* The baseline iteration of the demo *)

\* C25 as stated: in the demo sequence, once the two KPI evaluations, the
\* three requirement verifications and the three constraint verifications
\* computed from the model are added and determine_overall_status() has
\* returned, every requirement is verified, requirement_success_rate is 100
\* and overall_status is requirements_met.
C25_DemoBaselineMeetsRequirements ==
    [][DemoDetermine =>
          /\ \A r \in DOMAIN evalObjs'[1].requirement_verifications :
                 evalObjs'[1].requirement_verifications[r].verified
          /\ evalObjs'[1].requirement_success_rate = Percent(1, 1)
          /\ evalObjs'[1].overall_status = REQUIREMENTS_MET]_vars

----------------------------------------------------------------------------
(* References of a Mission *)

CurrentSolutions == {design_solutions[i] : i \in 1..Len(design_solutions)}

CurrentIds == {solObjs[s].id : s \in CurrentSolutions}

\* C30 as stated: in every state reached through the Mission methods and
\* the REST solution endpoints, baseline_solution_id and
\* selected_solution_id when set, every key of solution_evaluations and the
\* solution of every DesignIteration refer to a solution that is in
\* design_solutions, and the ids of the solutions in design_solutions are
\* pairwise distinct.
C30_ReferentialIntegrity ==
    /\ baseline_solution_id # None => baseline_solution_id \in CurrentIds
    /\ selected_solution_id # None => selected_solution_id \in CurrentIds
    /\ DOMAIN solution_evaluations \subseteq CurrentIds
    /\ \A i \in 1..Len(design_iterations) :
           design_iterations[i].solution \in CurrentSolutions
    /\ \A i \in 1..Len(design_solutions), j \in 1..Len(design_solutions) :
           i # j => solObjs[design_solutions[i]].id # solObjs[design_solutions[j]].id

====
